---- MODULE Spec2Model ----
(***************************************************************************)
(* A model of rusty-advisor: the Prometheus histogram projection           *)
(* (exporters/prometheus_exporter/metrics/prometheus_histogram.rs), the    *)
(* hiccup monitor (collectors/hiccups_collector/hiccup_monitor.rs), the    *)
(* metric registry (metrics/registry.rs, metrics/metric.rs), the recorders *)
(* (metrics/histogram.rs), the producer of snapshots                       *)
(* (exporters/metrics_exporter.rs) and the Prometheus exporter             *)
(* (exporters/prometheus_exporter/prometheus_reporter.rs,                  *)
(* prometheus_encoder.rs).                                                 *)
(*                                                                         *)
(* Each subsystem has its own specification over the shared variables:     *)
(*   Spec         the PrometheusHistogram under add_snapshot calls         *)
(*   SpecHiccup   the HiccupMonitor: run(), stop() and its sampler threads *)
(*   SpecRegistry the Registry under get_or_register_histogram calls       *)
(*   SpecConcurrent  the Registry under concurrent callers, step by step   *)
(*   SpecDescription MetricDescription::from applied to builders' fields   *)
(*   SpecExporter the MetricsExporter's ticks over a registry in use       *)
(*   SpecRecorder the callers of HistogramRecorder and HistogramTimer      *)
(*   SpecServer   the HTTP server: start_server and serve_req              *)
(*   SpecSubscriber  the broadcast channel, its producer and listen_metrics *)
(*   SpecProjector   consume_snapshot given snapshots of any samples       *)
(*   SpecHiccupFair  SpecHiccup with fair sampler threads and a fair join  *)
(*   SpecReregister  a Histogram in use registered again, other settings   *)
(*   SpecIdentity    metrics of equal ids from the registry to the holder  *)
(*   SpecPipeline    the requests beside the ticks and consume_snapshot    *)
(*   SpecPipelineFair  SpecPipeline under fair scheduling                  *)
(*   SpecSnapshots   SpecPipeline with snapshots of two samples            *)
(*   SpecDelivery    a recorded value on its way to the count              *)
(*   SpecWorkers     registrations as tasks on bounded worker threads      *)
(* A specification leaves the variables of the other subsystems alone.     *)
(*                                                                         *)
(* Real numbers (f64) are fixed-point integers counting thousandths, so    *)
(* 1.0 is 1000; of the time units only milliseconds and seconds are        *)
(* representable and modelled.                                             *)
(***************************************************************************)
EXTENDS Integers, Sequences, FiniteSets, TLC

VARIABLES
    \* ---- PrometheusHistogram (prometheus_histogram.rs:15-21)
    buckets,          \* Vec<(f64, u64)>: sequence of [bound, count], +Inf (f64::MAX) last
    count,            \* u64
    sum,              \* f64 (fixed point)
    timestamp_ms,     \* u64
    snapshots_seen,   \* number of add_snapshot calls made so far (history)
    sample_unit,      \* the measurement unit of the metric's HistogramSettings
    \* ---- HiccupMonitor (hiccup_monitor.rs:14-20)
    hiccup_nanos,     \* u64: the resolution
    running,          \* Arc<AtomicBool>, shared with every sampler thread
    handle,           \* Option<JoinHandle>: None, or the index of a thread
    threads,          \* the sampler threads spawned so far, in spawn order
    sample_count,     \* get_sample_count() of the histogram's "all" child
    caller,           \* where the owner of the monitor is: idle, in join, panicked
    joining,          \* the thread the owner's stop() is joining, or None
    joined,           \* the threads a stop() has joined (history)
    \* ---- Registry (registry.rs:23-26)
    histograms_storage,  \* DashMap<MetricName, MetricHolder<Histogram>>
    reg_result,          \* what the last get_or_register_histogram call ended with
    registrations,       \* number of get_or_register_histogram calls so far (history)
    \* ---- concurrent callers of Registry::get_or_register_histogram
    callers,             \* each caller: where it is in the call, its builder, its result
    shard_of,            \* the shard of histograms_storage each metric name hashes to
    shard_locks,         \* for each shard, the caller holding its write lock, or None
    workers,             \* for each worker thread of the runtime, the task it runs, or None
    histogram_writer,    \* the Histogram whose write guard a tick holds (its key), or << >>
    \* ---- MetricDescription::from (metric.rs:41-66)
    described,           \* the results of the MetricDescription::from calls made so far
    \* ---- MetricsExporter (metrics_exporter.rs:29-60)
    tick_pc,             \* where the producer is: between ticks, or sampling in tick()
    tick_timestamp,      \* timestamp_in_millis of the tick in progress
    tick_metrics,        \* the Vec registry.histograms() returned to the tick in progress
    tick_samples,        \* the Vec<MetricSample> the tick in progress has filled so far
    sent_snapshots,      \* the MetricsSnapshot last handed to the broadcast channel: << >> or <<it>>
    \* ---- callers of a HistogramRecorder (histogram.rs:60-107)
    record_result,       \* what the last record, record_duration or close call returned
    \* ---- the HTTP server of the PrometheusExporter (prometheus_reporter.rs:47-89, 123-148)
    server_pc,           \* the server: not started, serving, or panicked in start_server
    http_req_histo,      \* the HistogramRecorder start_server obtained: << >> or <<it>>
    requests,            \* the requests received so far: method, path, where serve_req is, response
    \* ---- the broadcast channel and its subscriber (lib.rs:60-72, prometheus_reporter.rs:150-188)
    channel,             \* the snapshots the channel retains, oldest first
    channel_tail,        \* the number of snapshots the channel has accepted
    receiver_next,       \* the position of the snapshot the Receiver reads next
    receivers,           \* the number of Receivers alive
    producer_pc,         \* the producer's loop in start(): in tick(), at send, in delay_for
    metric_snapshot,     \* the snapshot tick() returned, to be sent: << >> or <<it>>
    sending_result,      \* what the last sender.send returned
    listener_pc,         \* listen_metrics: in recv, in consume_snapshot, in add_snapshot, returned, panicked
    consumed,            \* the snapshot consume_snapshot is in, with the samples still to take: << >> or <<it>>
    metrics_holder       \* MetricsHolder.histograms: HashMap<u64, PrometheusHistogram>

promVars == <<buckets, count, sum, timestamp_ms, snapshots_seen, sample_unit>>

hiccupVars == <<hiccup_nanos, running, handle, threads, sample_count, caller,
                joining, joined>>

regVars == <<histograms_storage, reg_result, registrations>>

concVars == <<callers, shard_of, shard_locks, workers, histogram_writer>>

descVars == <<described>>

expVars == <<tick_pc, tick_timestamp, tick_metrics, tick_samples, sent_snapshots>>

recVars == <<record_result>>

serverVars == <<server_pc, http_req_histo, requests>>

subVars == <<channel, channel_tail, receiver_next, receivers, producer_pc, metric_snapshot,
             sending_result, listener_pc, consumed, metrics_holder>>

vars == <<promVars, hiccupVars, regVars, concVars, descVars, expVars, recVars, serverVars,
          subVars>>

----------------------------------------------------------------------------
(* Bounds of the model *)

\* HDR values recorded in a sample range over 0..MaxValue
MaxValue == 2
\* observations projected into one PrometheusHistogram in one behaviour
MaxCount == 3
\* longest configured bucket ladder (finite bounds)
MaxBuckets == 2
\* timestamps range over 0..MaxTime
MaxTime == 1
\* add_snapshot calls in one behaviour
MaxSnapshots == 2
\* the resolution of a HiccupMonitor ranges over 0..MaxResolution
MaxResolution == 2
\* the elapsed nanoseconds of one sleep range over 0..MaxElapsed
MaxElapsed == 3
\* run() calls in one behaviour
MaxRuns == 2
\* sampler iterations (over all threads) in one behaviour
MaxIterations == 2
\* get_or_register_histogram calls in one behaviour
MaxRegistrations == 2
\* concurrent callers of the Registry
MaxCallers == 2
\* MetricDescription::from calls in one behaviour
MaxDescribed == 2
\* values recorded into the registered Histograms in one behaviour
MaxRecorded == 2
\* requests the HTTP server is given in one behaviour
MaxRequests == 2
\* snapshots the producer may send beyond the capacity of the channel
MaxOverrun == 1
\* snapshots of any samples published in one behaviour
MaxProjected == 2

----------------------------------------------------------------------------
(* Measurement units: measurement_unit.rs.  factor is in thousandths. *)

MEASUREMENT_UNITS ==
    [ millis     |-> [dimension |-> "Time", name |-> "milliseconds", factor |-> 1],
      seconds    |-> [dimension |-> "Time", name |-> "seconds", factor |-> 1000],
      bytes      |-> [dimension |-> "Information", name |-> "bytes", factor |-> 1000] ]

Units == { MEASUREMENT_UNITS[k] : k \in DOMAIN MEASUREMENT_UNITS }

\* `v as f64`: the fixed-point representation of the integer v
as_f64(v) == v * MEASUREMENT_UNITS.seconds.factor

\* convert(value, from, to): value is fixed point
convert(value, from, to) ==
    IF from.dimension # to.dimension THEN value
    ELSE IF from = to THEN value
    ELSE (from.factor * value) \div to.factor

----------------------------------------------------------------------------
(* HDR histogram samples: the counts per value; iter_recorded() yields the *)
(* recorded values in ascending order with their counts.                   *)

RECURSIVE total_from(_, _)
total_from(hdr, v) == IF v > MaxValue THEN 0 ELSE hdr[v] + total_from(hdr, v + 1)

\* hdr.len(): the number of recorded observations
hdr_len(hdr) == total_from(hdr, 0)

HdrHistograms == { h \in [0..MaxValue -> 0..MaxCount] : hdr_len(h) <= MaxCount }

EmptyHdr == [v \in 0..MaxValue |-> 0]

RECURSIVE iter_from(_, _)
iter_from(hdr, v) ==
    IF v > MaxValue THEN << >>
    ELSE IF hdr[v] > 0
         THEN <<[value_iterated_to |-> v, count_at_value |-> hdr[v]]>> \o iter_from(hdr, v + 1)
         ELSE iter_from(hdr, v + 1)

iter_recorded(hdr) == iter_from(hdr, 0)

\* HistogramSample: the cloned distribution and the unit of its settings
HistogramSample(hdr, unit) == [hdr_histogram |-> hdr, measurement_unit |-> unit]

----------------------------------------------------------------------------
(* PrometheusHistogram *)

\* f64::MAX, the bound of the last bucket
F64_MAX == 2147483647

\* the finite bounds a configuration may name (fixed point: 0.001, 1.0, 2.5)
BoundValues == {1, 1000, 2500}

RECURSIVE SeqsUpTo(_, _)
SeqsUpTo(S, n) ==
    IF n = 0 THEN { << >> }
    ELSE LET shorter == SeqsUpTo(S, n - 1)
         IN  shorter \cup { Append(s, x) : s \in shorter, x \in S }

\* the bucket lists of the settings: the lists of distinct bounds, in any order
\* (the settings are read as they are written: nothing sorts them)
BucketLadders ==
    { l \in SeqsUpTo(BoundValues, MaxBuckets) :
        \A i, j \in 1..Len(l) : i # j => l[i] # l[j] }

\* (a version of the next definition without the last bucket)
create_buckets_without_last(ladder) ==
    [i \in 1..Len(ladder) |-> [bound |-> ladder[i], count |-> 0]]

\* PrometheusHistogram::create_buckets: a bucket for every bound of the settings and
\* a last one with the bound f64::MAX
create_buckets(ladder) ==
    [i \in 1..Len(ladder) |-> [bound |-> ladder[i], count |-> 0]]
        \o <<[bound |-> F64_MAX, count |-> 0]>>

\* advance_cursor with the comparison `value >= next_bucket`: a value equal to a
\* bound is pushed into the next bucket
RECURSIVE advance_cursor_exclusive(_, _, _, _)
advance_cursor_exclusive(bk, idx, value, count_samples) ==
    IF value >= bk[idx].bound /\ idx <= Len(bk)
    THEN advance_cursor_exclusive([bk EXCEPT ![idx].count = @ + count_samples],
                                  idx + 1, value, count_samples)
    ELSE [buckets |-> bk, next_bucket_index |-> idx]

\* the inner while loop of add_snapshot: move the cursor past every bucket whose
\* bound is below value, adding count_samples to each bucket passed.
\* Indexes are 1-based: the code's next_bucket_index is idx - 1.
RECURSIVE advance_cursor(_, _, _, _)
advance_cursor(bk, idx, value, count_samples) ==
    IF value > bk[idx].bound /\ idx <= Len(bk)
    THEN advance_cursor([bk EXCEPT ![idx].count = @ + count_samples],
                        idx + 1, value, count_samples)
    ELSE [buckets |-> bk, next_bucket_index |-> idx]

\* the for loop over iter_recorded()
RECURSIVE fold_records(_, _, _, _, _, _)
fold_records(recs, unit, bk, idx, sum_samples, count_samples) ==
    IF recs = << >>
    THEN [buckets |-> bk, next_bucket_index |-> idx,
          sum_samples |-> sum_samples, count_samples |-> count_samples]
    ELSE LET record == Head(recs)
             value  == convert(as_f64(record.value_iterated_to), unit,
                               MEASUREMENT_UNITS.seconds)
             cnt    == record.count_at_value
             moved  == advance_cursor(bk, idx, value, count_samples)
         IN  fold_records(Tail(recs), unit, moved.buckets, moved.next_bucket_index,
                          sum_samples + value * cnt, count_samples + cnt)

\* add_snapshot_result with the last loop starting one bucket too late
\* (for remaining_bucket in &mut self.buckets[next_bucket_index + 1..])
add_snapshot_result_skip(bk, histogram_sample) ==
    LET folded == fold_records(iter_recorded(histogram_sample.hdr_histogram),
                               histogram_sample.measurement_unit, bk, 1, 0, 0)
    IN  [buckets |-> [i \in 1..Len(bk) |->
                        IF i > folded.next_bucket_index
                        THEN [folded.buckets[i] EXCEPT !.count = @ + folded.count_samples]
                        ELSE folded.buckets[i]],
         sum_samples |-> folded.sum_samples,
         count_samples |-> folded.count_samples]

\* the buckets, sum_samples and count_samples add_snapshot ends its loops with:
\* the for loop over the records, then the loop over the remaining buckets
add_snapshot_result(bk, histogram_sample) ==
    LET folded == fold_records(iter_recorded(histogram_sample.hdr_histogram),
                               histogram_sample.measurement_unit, bk, 1, 0, 0)
    IN  [buckets |-> [i \in 1..Len(bk) |->
                        IF i >= folded.next_bucket_index
                        THEN [folded.buckets[i] EXCEPT !.count = @ + folded.count_samples]
                        ELSE folded.buckets[i]],
         sum_samples |-> folded.sum_samples,
         count_samples |-> folded.count_samples]

\* add_snapshot assigning sum and count instead of accumulating them
\* (self.sum = sum_samples; self.count = count_samples)
add_snapshot_assign(histogram_sample, timestamp_in_millis) ==
    /\ snapshots_seen < MaxSnapshots
    /\ count + hdr_len(histogram_sample.hdr_histogram) <= MaxCount
    /\ LET r == add_snapshot_result(buckets, histogram_sample)
       IN  /\ buckets' = r.buckets
           /\ sum' = r.sum_samples
           /\ count' = r.count_samples
    /\ timestamp_ms' = timestamp_in_millis
    /\ snapshots_seen' = snapshots_seen + 1
    /\ UNCHANGED sample_unit
    /\ UNCHANGED <<hiccupVars, regVars, concVars, descVars, expVars, recVars, serverVars, subVars>>

\* add_snapshot returning early, before the timestamp is set, when the sample
\* holds no record
add_snapshot_early_return(histogram_sample, timestamp_in_millis) ==
    /\ snapshots_seen < MaxSnapshots
    /\ count + hdr_len(histogram_sample.hdr_histogram) <= MaxCount
    /\ LET r == add_snapshot_result(buckets, histogram_sample)
       IN  /\ buckets' = r.buckets
           /\ sum' = sum + r.sum_samples
           /\ count' = count + r.count_samples
    /\ timestamp_ms' = IF hdr_len(histogram_sample.hdr_histogram) = 0
                       THEN timestamp_ms ELSE timestamp_in_millis
    /\ snapshots_seen' = snapshots_seen + 1
    /\ UNCHANGED sample_unit
    /\ UNCHANGED <<hiccupVars, regVars, concVars, descVars, expVars, recVars, serverVars, subVars>>

\* PrometheusHistogram::add_snapshot.  The two guards are the bounds of the model.
add_snapshot(histogram_sample, timestamp_in_millis) ==
    /\ snapshots_seen < MaxSnapshots
    /\ count + hdr_len(histogram_sample.hdr_histogram) <= MaxCount
    /\ LET r == add_snapshot_result(buckets, histogram_sample)
       IN  /\ buckets' = r.buckets
           /\ sum' = sum + r.sum_samples
           /\ count' = count + r.count_samples
    /\ timestamp_ms' = timestamp_in_millis
    /\ snapshots_seen' = snapshots_seen + 1
    /\ UNCHANGED sample_unit
    /\ UNCHANGED <<hiccupVars, regVars, concVars, descVars, expVars, recVars, serverVars, subVars>>

AddSnapshot ==
    \E hdr \in HdrHistograms, ts \in 0..MaxTime :
        add_snapshot(HistogramSample(hdr, sample_unit), ts)

\* PrometheusHistogram::new
InitProm ==
    /\ \E ladder \in BucketLadders : buckets = create_buckets(ladder)
    /\ count = 0
    /\ sum = 0
    /\ timestamp_ms \in 0..MaxTime
    /\ snapshots_seen = 0
    /\ sample_unit \in Units

\* Option::None of the JoinHandle (the threads are numbered from 1)
None == 0

\* the HiccupMonitor before it is constructed (not part of Spec)
IdleHiccup ==
    /\ hiccup_nanos = 0
    /\ running = FALSE
    /\ handle = None
    /\ threads = << >>
    /\ sample_count = 0
    /\ caller = "idle"
    /\ joining = None
    /\ joined = {}

\* the Registry with nothing registered
EmptyRegistry ==
    /\ histograms_storage = << >>
    /\ reg_result = [kind |-> "none"]
    /\ registrations = 0

\* no caller is inside the Registry
NoCallers ==
    /\ callers = << >>
    /\ shard_of = << >>
    /\ shard_locks = << >>
    /\ workers = << >>
    /\ histogram_writer = << >>

\* MetricDescription::from has not been called
NothingDescribed == described = << >>

\* the producer of snapshots has not been started
IdleExporter ==
    /\ tick_pc = "idle"
    /\ tick_timestamp = 0
    /\ tick_metrics = << >>
    /\ tick_samples = << >>
    /\ sent_snapshots = << >>

\* no HistogramRecorder has been called
NoRecord == record_result = [kind |-> "none"]

\* the HTTP server has not been started
IdleServer ==
    /\ server_pc = "new"
    /\ http_req_histo = << >>
    /\ requests = << >>

\* the channel and its subscriber before broadcast::channel is called
IdleSubscriber ==
    /\ channel = << >>
    /\ channel_tail = 0
    /\ receiver_next = 0
    /\ receivers = 0
    /\ producer_pc = "new"
    /\ metric_snapshot = << >>
    /\ sending_result = [kind |-> "none"]
    /\ listener_pc = "new"
    /\ consumed = << >>
    /\ metrics_holder = << >>

\* the recorders' callers, the server and the subscriber are not part of a
\* specification
IdlePipeline == NoRecord /\ IdleServer /\ IdleSubscriber

Init ==
    /\ InitProm /\ IdleHiccup /\ EmptyRegistry /\ NoCallers /\ NothingDescribed /\ IdleExporter
    /\ IdlePipeline

Next == AddSnapshot

Spec == Init /\ [][Next]_vars

----------------------------------------------------------------------------
(* Properties of the PrometheusHistogram (under Spec) *)

\* the finite bounds are strictly increasing (the last bucket, f64::MAX, is above all)
StrictlyIncreasing(bk) == \A i \in 1..(Len(bk) - 1) : bk[i].bound < bk[i + 1].bound

\* the unit-converted value of the HDR value v of a sample in `unit`
Converted(v, unit) == convert(as_f64(v), unit, MEASUREMENT_UNITS.seconds)

RECURSIVE SumOver(_, _)
SumOver(f, S) ==
    IF S = {} THEN 0
    ELSE LET x == CHOOSE y \in S : TRUE IN f[x] + SumOver(f, S \ {x})

\* the number of observations of the sample whose converted value is <= bound
ObservationsUpTo(hdr, unit, bound) ==
    SumOver(hdr, { v \in 0..MaxValue : Converted(v, unit) <= bound })

\* the sum of value * multiplicity over the sample
WeightedSum(hdr, unit) ==
    SumOver([v \in 0..MaxValue |-> Converted(v, unit) * hdr[v]], 0..MaxValue)

\* C1: with strictly increasing bounds, one add_snapshot call adds to every bucket
\* the number of observations of the sample whose unit-converted value is <= the
\* bucket's bound, adds the sample's total multiplicity to count and the sum of
\* value * multiplicity to sum.
C1_AddSnapshotIsCumulative ==
    [][\A hdr \in HdrHistograms, ts \in 0..MaxTime :
         (StrictlyIncreasing(buckets) /\ add_snapshot(HistogramSample(hdr, sample_unit), ts))
         => /\ Len(buckets') = Len(buckets)
            /\ \A i \in 1..Len(buckets) :
                  buckets'[i].count =
                      buckets[i].count + ObservationsUpTo(hdr, sample_unit, buckets[i].bound)
            /\ count' = count + SumOver(hdr, 0..MaxValue)
            /\ sum' = sum + WeightedSum(hdr, sample_unit)]_vars

\* C1 witness: three buckets with increasing bounds hold three different cumulative
\* counts after two snapshots
C1_Witness ==
    /\ snapshots_seen = 2
    /\ Len(buckets) = 3
    /\ StrictlyIncreasing(buckets)
    /\ 0 < buckets[1].count
    /\ buckets[1].count < buckets[2].count
    /\ buckets[2].count < buckets[3].count

\* C2: in every state the +Inf bucket's count equals count, and the bucket counts
\* are non-decreasing along the bucket list.
C2_BucketsCumulative ==
    /\ buckets[Len(buckets)].count = count
    /\ \A i \in 1..(Len(buckets) - 1) : buckets[i].count <= buckets[i + 1].count

\* C2 witness: after two snapshots the first of three buckets is strictly below
\* the +Inf bucket
C2_Witness ==
    /\ snapshots_seen = 2
    /\ Len(buckets) = 3
    /\ buckets[1].count < buckets[3].count
    /\ buckets[3].bound = F64_MAX

\* C3: count, sum and every bucket's count never decrease, and the bucket bounds
\* never change.
C3_Monotonic ==
    [][/\ count' >= count
       /\ sum' >= sum
       /\ Len(buckets') = Len(buckets)
       /\ \A i \in 1..Len(buckets) :
             /\ buckets'[i].count >= buckets[i].count
             /\ buckets'[i].bound = buckets[i].bound]_vars

\* C3 witness: a second snapshot was applied to a histogram that already held
\* observations
C3_Witness ==
    /\ snapshots_seen = 2
    /\ count >= 2
    /\ sum > 0
    /\ \E i \in 1..Len(buckets) : 0 < buckets[i].count /\ buckets[i].count < count

\* C4: projecting an empty sample leaves every bucket count, sum and count as they
\* were and sets timestamp_ms to the timestamp given.
C4_EmptySampleOnlySetsTimestamp ==
    [][\A ts \in 0..MaxTime :
         add_snapshot(HistogramSample(EmptyHdr, sample_unit), ts)
         => /\ buckets' = buckets
            /\ sum' = sum
            /\ count' = count
            /\ timestamp_ms' = ts]_vars

\* C4 witness: snapshots were projected and all of them were empty
C4_Witness ==
    /\ snapshots_seen > 0
    /\ count = 0
    /\ \A i \in 1..Len(buckets) : buckets[i].count = 0

----------------------------------------------------------------------------
(* HiccupMonitor: hiccup_monitor.rs *)

\* std::u64::MAX, the first shortest_observed_delta (on the model's 32-bit integers)
U64_MAX == 2147483647

\* u64 subtraction, wrapping below 0
u64_sub(a, b) == IF a >= b THEN a - b ELSE a + (U64_MAX - b) + 1

\* value.checked_sub(interval), 0 when it is None
checked_sub_or_zero(value, interval) == IF value >= interval THEN value - interval ELSE 0

\* a sampler thread as run() spawns it: the closure's captured state
\*   pc                       where the thread is: loop (the while condition), hicc,
\*                            record, backfill (the while loop of record), exited
\*   shortest_observed_delta  moved into the closure
\*   delta, hiccup_time       the last measurement of hicc and its result
\*   missing_value            record's loop variable
\*   written                  the values the current record call has observed (history)
\*   seen                     the deltas hicc has measured (history)
\*   n_iter                   the iterations begun (history)
NewThread ==
    [pc |-> "loop", shortest_observed_delta |-> U64_MAX, delta |-> 0, hiccup_time |-> 0,
     missing_value |-> 0, written |-> << >>, seen |-> {}, n_iter |-> 0]

RECURSIVE IterationsFrom(_, _)
IterationsFrom(ths, i) ==
    IF i > Len(ths) THEN 0 ELSE ths[i].n_iter + IterationsFrom(ths, i + 1)

\* HiccupMonitor::new
InitHiccup ==
    /\ hiccup_nanos \in 0..MaxResolution
    /\ running = TRUE
    /\ handle = None
    /\ threads = << >>
    /\ sample_count = 0
    /\ caller = "idle"
    /\ joining = None
    /\ joined = {}

\* run() storing true into the flag before it spawns the thread
run_restarts ==
    /\ caller = "idle"
    /\ Len(threads) < MaxRuns
    /\ threads' = Append(threads, NewThread)
    /\ handle' = Len(threads) + 1
    /\ running' = TRUE
    /\ UNCHANGED <<hiccup_nanos, sample_count, caller, joining, joined>>
    /\ UNCHANGED <<promVars, regVars, concVars, descVars, expVars, recVars, serverVars, subVars>>

\* HiccupMonitor::run: spawn a sampler thread and keep its handle
run ==
    /\ caller = "idle"
    /\ Len(threads) < MaxRuns
    /\ threads' = Append(threads, NewThread)
    /\ handle' = Len(threads) + 1
    /\ UNCHANGED <<hiccup_nanos, running, sample_count, caller, joining, joined>>
    /\ UNCHANGED <<promVars, regVars, concVars, descVars, expVars, recVars, serverVars, subVars>>

\* (a version of the next definition that does not look at the flag)
loop_continues_always(is_running) == TRUE

\* the condition of the thread's loop: is_running.load(Ordering::SeqCst)
loop_continues(is_running) == is_running

\* the thread's `while is_running.load(SeqCst)`; the guard bounds the iterations
thread_loop(t) ==
    /\ threads[t].pc = "loop"
    /\ loop_continues(running) => IterationsFrom(threads, 1) < MaxIterations
    /\ threads' = [threads EXCEPT
           ![t].pc = IF loop_continues(running) THEN "hicc" ELSE "exited",
           ![t].n_iter = IF loop_continues(running) THEN @ + 1 ELSE @]
    /\ UNCHANGED <<hiccup_nanos, running, handle, sample_count, caller, joining, joined>>
    /\ UNCHANGED <<promVars, regVars, concVars, descVars, expVars, recVars, serverVars, subVars>>

\* hicc with the update of the shortest delta inverted (delta > shortest)
hicc_result_inverted(delta, shortest_observed_delta) ==
    LET shortest == IF delta > shortest_observed_delta THEN delta
                    ELSE shortest_observed_delta
    IN  [shortest_observed_delta |-> shortest, hiccup_time |-> u64_sub(delta, shortest)]

\* hicc: the new shortest delta and the value returned, for a measured delta
hicc_result(delta, shortest_observed_delta) ==
    LET shortest == IF delta < shortest_observed_delta THEN delta
                    ELSE shortest_observed_delta
    IN  [shortest_observed_delta |-> shortest, hiccup_time |-> u64_sub(delta, shortest)]

\* hicc(resolution, &mut shortest_observed_delta): sleep, measure, return the hiccup
hicc(t) ==
    /\ threads[t].pc = "hicc"
    /\ \E delta \in 0..MaxElapsed :
         LET r == hicc_result(delta, threads[t].shortest_observed_delta)
         IN  threads' = [threads EXCEPT
                 ![t].pc = "record",
                 ![t].delta = delta,
                 ![t].seen = @ \cup {delta},
                 ![t].shortest_observed_delta = r.shortest_observed_delta,
                 ![t].hiccup_time = r.hiccup_time]
    /\ UNCHANGED <<hiccup_nanos, running, handle, sample_count, caller, joining, joined>>
    /\ UNCHANGED <<promVars, regVars, concVars, descVars, expVars, recVars, serverVars, subVars>>

\* record's test of the interval with the test left out
record_enters_backfill_always(interval) == TRUE

\* record's `if expected_interval_between_value_samples > 0`
record_enters_backfill(interval) == interval > 0

\* record, up to its while loop: observe the value, then prepare missing_value
record(t) ==
    /\ threads[t].pc = "record"
    /\ sample_count' = sample_count + 1
    /\ threads' = [threads EXCEPT
           ![t].written = <<threads[t].hiccup_time>>,
           ![t].missing_value =
               IF record_enters_backfill(hiccup_nanos)
               THEN checked_sub_or_zero(threads[t].hiccup_time, hiccup_nanos)
               ELSE @,
           ![t].pc = IF record_enters_backfill(hiccup_nanos) THEN "backfill" ELSE "loop"]
    /\ UNCHANGED <<hiccup_nanos, running, handle, caller, joining, joined>>
    /\ UNCHANGED <<promVars, regVars, concVars, descVars, expVars, recVars, serverVars, subVars>>

\* the loop condition of record as `missing_value > interval`
backfill_continues_strict(missing_value, interval) == missing_value > interval

\* record's `while missing_value >= expected_interval_between_value_samples`
backfill_continues(missing_value, interval) == missing_value >= interval

\* one test of record's while loop, and its body when the test holds
backfill(t) ==
    /\ threads[t].pc = "backfill"
    /\ IF backfill_continues(threads[t].missing_value, hiccup_nanos)
       THEN /\ sample_count' = sample_count + 1
            /\ threads' = [threads EXCEPT
                   ![t].written = Append(@, threads[t].missing_value),
                   ![t].missing_value = u64_sub(@, hiccup_nanos)]
       ELSE /\ threads' = [threads EXCEPT ![t].pc = "loop"]
            /\ UNCHANGED sample_count
    /\ UNCHANGED <<hiccup_nanos, running, handle, caller, joining, joined>>
    /\ UNCHANGED <<promVars, regVars, concVars, descVars, expVars, recVars, serverVars, subVars>>

\* stop() returning Ok silently when there is no handle
stop_call_lenient ==
    /\ caller = "idle"
    /\ running' = FALSE
    /\ handle' = None
    /\ IF handle = None
       THEN UNCHANGED <<caller, joining>>
       ELSE caller' = "join" /\ joining' = handle
    /\ UNCHANGED <<hiccup_nanos, threads, sample_count, joined>>
    /\ UNCHANGED <<promVars, regVars, concVars, descVars, expVars, recVars, serverVars, subVars>>

\* stop(), up to the join: store false, take the handle, panic when there is none
stop_call ==
    /\ caller = "idle"
    /\ running' = FALSE
    /\ handle' = None
    /\ IF handle = None
       THEN caller' = "panicked" /\ UNCHANGED joining
       ELSE caller' = "join" /\ joining' = handle
    /\ UNCHANGED <<hiccup_nanos, threads, sample_count, joined>>
    /\ UNCHANGED <<promVars, regVars, concVars, descVars, expVars, recVars, serverVars, subVars>>

\* stop() returning without waiting for the thread to end
stop_join_no_wait ==
    /\ caller = "join"
    /\ caller' = "idle"
    /\ joined' = joined \cup {joining}
    /\ joining' = None
    /\ UNCHANGED <<hiccup_nanos, running, handle, threads, sample_count>>
    /\ UNCHANGED <<promVars, regVars, concVars, descVars, expVars, recVars, serverVars, subVars>>

\* stop(): join() returns once the thread has ended, and stop() returns
stop_join ==
    /\ caller = "join"
    /\ threads[joining].pc = "exited"
    /\ caller' = "idle"
    /\ joined' = joined \cup {joining}
    /\ joining' = None
    /\ UNCHANGED <<hiccup_nanos, running, handle, threads, sample_count>>
    /\ UNCHANGED <<promVars, regVars, concVars, descVars, expVars, recVars, serverVars, subVars>>

\* the steps of the sampler threads
ThreadLoop == \E t \in 1..Len(threads) : thread_loop(t)
Hicc == \E t \in 1..Len(threads) : hicc(t)
Record == \E t \in 1..Len(threads) : record(t)
Backfill == \E t \in 1..Len(threads) : backfill(t)

\* the PrometheusHistogram as InitHiccup leaves it (not part of SpecHiccup)
IdleProm ==
    /\ buckets = create_buckets(<< >>)
    /\ count = 0
    /\ sum = 0
    /\ timestamp_ms = 0
    /\ snapshots_seen = 0
    /\ sample_unit = MEASUREMENT_UNITS.seconds

HiccupInit ==
    /\ InitHiccup /\ IdleProm /\ EmptyRegistry /\ NoCallers /\ NothingDescribed /\ IdleExporter
    /\ IdlePipeline

HiccupNext ==
    \/ run
    \/ stop_call
    \/ stop_join
    \/ ThreadLoop
    \/ Hicc
    \/ Record
    \/ Backfill

SpecHiccup == HiccupInit /\ [][HiccupNext]_vars

\* the steps of the sampler thread t
sampler(t) ==
    /\ t \in 1..Len(threads)
    /\ thread_loop(t) \/ hicc(t) \/ record(t) \/ backfill(t)

HiccupFairInit == HiccupInit /\ hiccup_nanos \in {0, 1}

\* the HiccupMonitor with its threads scheduled: a thread that can step does
\* (thread::sleep ends, the Mutex of the histogram is released), and join returns
\* once the thread has ended.  The resolution is 0 (no back-fill) or 1 (the longest
\* back-fill).
SpecHiccupFair ==
    /\ HiccupFairInit
    /\ [][HiccupNext]_vars
    /\ \A t \in 1..MaxRuns : WF_vars(sampler(t))
    /\ WF_vars(stop_join)

----------------------------------------------------------------------------
(* Properties of the HiccupMonitor (under SpecHiccup) *)

Max(a, b) == IF a >= b THEN a ELSE b

Minimum(S) == CHOOSE x \in S : \A y \in S : x <= y

\* the record call of the thread's current iteration has returned
RecordReturned(th) == th.pc \in {"loop", "exited"} /\ th.written # << >>

\* the iterations of the thread in which hicc has returned
Measured(th) == IF th.pc = "hicc" THEN th.n_iter - 1 ELSE th.n_iter

\* the record calls of the thread that have returned
RecordCalls(th) == IF th.pc \in {"hicc", "record", "backfill"} THEN th.n_iter - 1 ELSE th.n_iter

RECURSIVE RecordCallsFrom(_, _)
RecordCallsFrom(ths, i) ==
    IF i > Len(ths) THEN 0 ELSE RecordCalls(ths[i]) + RecordCallsFrom(ths, i + 1)

\* C5: with an interval R > 0, a record call of the hiccup value h writes exactly
\* 1 + max(0, h \div R - 1) values: h, then h - R, h - 2R, ..., each of these >= R;
\* every value written is >= 0 and <= h.
C5_BackfillCount ==
    hiccup_nanos > 0 =>
        \A t \in 1..Len(threads) :
            LET th == threads[t]
                h  == th.hiccup_time
                R  == hiccup_nanos
            IN  /\ th.pc \in {"backfill", "loop", "exited"} =>
                      \A k \in 1..Len(th.written) :
                          /\ th.written[k] = h - (k - 1) * R
                          /\ th.written[k] >= 0
                          /\ th.written[k] <= h
                          /\ k > 1 => th.written[k] >= R
                /\ RecordReturned(th) =>
                      Len(th.written) = 1 + Max(0, (h \div R) - 1)

\* C5 witness: a hiccup of three intervals was recorded with its two back-filled values
C5_Witness ==
    /\ hiccup_nanos = 1
    /\ \E t \in 1..Len(threads) :
         /\ threads[t].pc = "loop"
         /\ threads[t].hiccup_time = 3
         /\ threads[t].written = <<3, 2, 1>>

\* C6: with the resolution 0 every record call writes exactly one value and returns
\* without entering the back-fill loop.
C6_ZeroResolutionOneRecord ==
    hiccup_nanos = 0 =>
        /\ \A t \in 1..Len(threads) :
             /\ threads[t].pc # "backfill"
             /\ RecordReturned(threads[t]) => threads[t].written = <<threads[t].hiccup_time>>
        /\ sample_count = RecordCallsFrom(threads, 1)

\* C6 witness: with resolution 0 two record calls have returned, the last one of a
\* hiccup above 0, and two values are in the histogram
C6_Witness ==
    /\ hiccup_nanos = 0
    /\ sample_count = 2
    /\ \E t \in 1..Len(threads) :
         /\ threads[t].pc = "loop"
         /\ threads[t].n_iter = 2
         /\ threads[t].written = <<3>>

\* C7: in every iteration of a sampler thread, once hicc has returned, shortest is the
\* minimum of the deltas measured so far, the hiccup is delta - shortest and is not
\* below 0, and the hiccup of the first iteration is 0.
C7_ShortestIsMinimum ==
    \A t \in 1..Len(threads) :
        LET th == threads[t]
        IN  Measured(th) >= 1 =>
                /\ th.seen # {}
                /\ th.shortest_observed_delta = Minimum(th.seen)
                /\ th.hiccup_time = th.delta - th.shortest_observed_delta
                /\ th.hiccup_time >= 0
                /\ Measured(th) = 1 => th.hiccup_time = 0

\* C7 witness: a second iteration measured a delta above the shortest one
C7_Witness ==
    \E t \in 1..Len(threads) :
        /\ Measured(threads[t]) = 2
        /\ threads[t].seen = {1, 3}
        /\ threads[t].delta = 3
        /\ threads[t].shortest_observed_delta = 1
        /\ threads[t].hiccup_time = 2

\* C8: when stop() returns, running is false and the sampler thread it joined has
\* ended; from then on that thread takes no step, so it records nothing more.
C8_StopJoinsSampler ==
    [][/\ \A t \in joined' : threads'[t].pc = "exited"
       /\ joined' # {} => ~running'
       /\ \A t \in joined : threads'[t] = threads[t]]_vars

\* C8 witness: stop() has returned after joining a thread that had recorded values
C8_Witness ==
    /\ caller = "idle"
    /\ sample_count > 0
    /\ \E t \in joined : threads[t].n_iter >= 1 /\ threads[t].written # << >>

\* no run() has been called since the last stop() that returned, or none at all
NoThreadToJoin == threads = << >> \/ Len(threads) \in joined

\* C9: a stop() called after a stop() that returned, or before any run(), ends in a
\* panic (its error outcome) without joining, and leaves running false.
C9_SecondStopIsError ==
    [][(NoThreadToJoin /\ stop_call)
       => /\ caller' = "panicked"
          /\ running' = FALSE
          /\ joining' = None
          /\ joined' = joined]_vars

\* C9 witness: a stop() has panicked after an earlier stop() had joined a thread
C9_Witness ==
    /\ caller = "panicked"
    /\ joined # {}
    /\ running = FALSE
    /\ joining = None

----------------------------------------------------------------------------
(* Metric descriptions: metric.rs.  A string is the sequence of its characters. *)

\* the characters the model's strings are written with, and their ASCII codes
ASCII == [c \in {" ", "1", "2", "\\", "a", "b", "m", "n"} |->
            CASE c = " " -> 32 [] c = "1" -> 49 [] c = "2" -> 50 [] c = "\\" -> 92
              [] c = "a" -> 97 [] c = "b" -> 98 [] c = "m" -> 109 [] c = "n" -> 110]

is_ascii(c) == ASCII[c] < 128

\* b'a'..=b'z' | b'A'..=b'Z'
is_letter(c) == (97 <= ASCII[c] /\ ASCII[c] <= 122) \/ (65 <= ASCII[c] /\ ASCII[c] <= 90)

\* b'0'..=b'9'
is_digit(c) == 48 <= ASCII[c] /\ ASCII[c] <= 57

\* is_tag_metric_name: [a-zA-Z_:][a-zA-Z0-9_:]*
is_tag_metric_name(name) ==
    LET valid_start(c) == is_ascii(c) /\ (is_letter(c) \/ ASCII[c] = 95 \/ ASCII[c] = 58)
        valid_char(c)  == is_ascii(c) /\ (is_letter(c) \/ is_digit(c) \/ ASCII[c] = 95
                                          \/ ASCII[c] = 58)
    IN  /\ Len(name) > 0 /\ valid_start(name[1])
        /\ ~ \E i \in 1..Len(name) : ~valid_char(name[i])

\* is_valid_tag_name: [a-zA-Z_][a-zA-Z0-9_]*
is_valid_tag_name(name) ==
    LET valid_start(c) == is_ascii(c) /\ (is_letter(c) \/ ASCII[c] = 95)
        valid_char(c)  == is_ascii(c) /\ (is_letter(c) \/ is_digit(c) \/ ASCII[c] = 95)
    IN  /\ Len(name) > 0 /\ valid_start(name[1])
        /\ ~ \E i \in 1..Len(name) : ~valid_char(name[i])

\* is_valid_tag_value: [a-zA-Z0-9-_./]*
is_valid_tag_value(name) ==
    LET valid_char(c) == is_ascii(c) /\ (is_letter(c) \/ is_digit(c) \/ ASCII[c] = 45
                                         \/ ASCII[c] = 95 \/ ASCII[c] = 46 \/ ASCII[c] = 47)
    IN  ~ \E i \in 1..Len(name) : ~valid_char(name[i])

\* the order of str: byte by byte, a proper prefix first
RECURSIVE str_le(_, _)
str_le(a, b) ==
    IF a = << >> THEN TRUE
    ELSE IF b = << >> THEN FALSE
    ELSE IF ASCII[Head(a)] < ASCII[Head(b)] THEN TRUE
    ELSE IF ASCII[Head(a)] > ASCII[Head(b)] THEN FALSE
    ELSE str_le(Tail(a), Tail(b))

RECURSIVE insert_sorted(_, _)
insert_sorted(x, sorted) ==
    IF sorted = << >> THEN <<x>>
    ELSE IF str_le(x, Head(sorted)) THEN <<x>> \o sorted
    ELSE <<Head(sorted)>> \o insert_sorted(x, Tail(sorted))

\* values.sort()
RECURSIVE sort(_)
sort(values) ==
    IF values = << >> THEN << >> ELSE insert_sorted(Head(values), sort(Tail(values)))

\* DefaultHasher over the list: two lists have one hash exactly when they are equal
\* (the hash is the list itself)
default_hash(values) == values

\* (a version of the next definition that does not sort the values)
compute_metric_id_unsorted(name, tags, order) ==
    default_hash(<<name>> \o [i \in 1..Len(order) |-> tags[order[i]]])

\* compute_metric_id: order is the order tags.iter() yields the tag names in
compute_metric_id(name, tags, order) ==
    default_hash(sort(<<name>> \o [i \in 1..Len(order) |-> tags[order[i]]]))

\* (a version of the next definition that does not sort the values)
compute_metric_definition_hash_unsorted(name, description, tag_names) ==
    default_hash(<<name, description>> \o tag_names)

\* compute_metric_definition_hash
compute_metric_definition_hash(name, description, tag_names) ==
    default_hash(sort(<<name, description>> \o tag_names))

\* (a version of the next definition that validates nothing)
MetricDescription_from_unchecked(name, description, tags, order) ==
    [ok |-> TRUE,
     value |-> [id |-> compute_metric_id(name, tags, order),
                definition_hash |-> compute_metric_definition_hash(name, description, order),
                name |-> name,
                description |-> description,
                tag_names |-> order,
                tags |-> tags]]

\* MetricDescription::from: the description, or the validation error
MetricDescription_from(name, description, tags, order) ==
    IF ~is_tag_metric_name(name) THEN [ok |-> FALSE, error |-> "Msg"]
    ELSE IF \E i \in 1..Len(order) : ~is_valid_tag_value(tags[order[i]])
         THEN [ok |-> FALSE, error |-> "Msg"]
    ELSE IF \E i \in 1..Len(order) : ~is_valid_tag_name(order[i])
         THEN [ok |-> FALSE, error |-> "Msg"]
    ELSE [ok |-> TRUE,
          value |-> [id |-> compute_metric_id(name, tags, order),
                     definition_hash |->
                         compute_metric_definition_hash(name, description, order),
                     name |-> name,
                     description |-> description,
                     tag_names |-> order,
                     tags |-> tags]]

----------------------------------------------------------------------------
(* Histograms and the registry: histogram.rs, registry.rs *)

\* HistogramSettings::default() and the other settings a builder is given
HistogramSettings ==
    { [low |-> 1, high |-> 1000000, precision |-> 2,
       measurement_unit |-> MEASUREMENT_UNITS.seconds],
      [low |-> 1, high |-> 600000, precision |-> 0,
       measurement_unit |-> MEASUREMENT_UNITS.millis],
      [low |-> 0, high |-> 10, precision |-> 2,
       measurement_unit |-> MEASUREMENT_UNITS.seconds] }

\* HdrHistogram::new_with_bounds succeeds (hdrhistogram: low >= 1, high >= 2 * low,
\* at most 5 significant figures)
new_with_bounds_ok(settings) ==
    settings.low >= 1 /\ settings.high >= 2 * settings.low /\ settings.precision <= 5

\* the strings the model's builders are made of
MetricNames == { <<"m">>, <<"1", "m">> }
Descriptions == { <<"a">>, <<"b">> }
TagNames == { <<"a">>, <<"b">> }
TagValues == { <<"1">>, <<"2">> }

\* HashMap<String, String>: every map from some of the tag names to the tag values
TagMaps == UNION { [S -> TagValues] : S \in SUBSET TagNames }

\* a map with a tag name that is no tag name, and one with a value that is no value
MalformedTagMaps == { (<<"1">> :> <<"1">>), (<<"a">> :> <<" ">>) }

\* the orders in which a HashMap may yield its keys
IterationOrders(S) ==
    { q \in [1..Cardinality(S) -> S] : \A i, j \in 1..Cardinality(S) : i # j => q[i] # q[j] }

\* HistogramBuilder, with the order its tags map iterates in
HistogramBuilders ==
    UNION { { [name |-> n, description |-> d, tags |-> tg, order |-> o, settings |-> st] :
                n \in MetricNames, d \in Descriptions,
                o \in IterationOrders(DOMAIN tg), st \in HistogramSettings } :
            tg \in TagMaps \cup MalformedTagMaps }

\* the builders of the concurrent callers: two names, no tag or the tag a = "1",
\* settings HdrHistogram accepts
ConcurrentBuilders ==
    UNION { { [name |-> n, description |-> d, tags |-> tg, order |-> o, settings |-> st] :
                n \in { <<"m">>, <<"n">> }, d \in Descriptions,
                o \in IterationOrders(DOMAIN tg),
                st \in { x \in HistogramSettings : new_with_bounds_ok(x) } } :
            tg \in { << >>, (<<"a">> :> <<"1">>) } }

\* settings of a Histogram whose range ends at 2, in milliseconds and in seconds
NarrowSettings ==
    { [low |-> 1, high |-> 2, precision |-> 0, measurement_unit |-> MEASUREMENT_UNITS.millis],
      [low |-> 1, high |-> 2, precision |-> 0, measurement_unit |-> MEASUREMENT_UNITS.seconds] }

\* the builders of the Histograms the recorders' callers write to: one with the
\* narrow range in milliseconds, one with it in seconds
RecorderBuilders ==
    { [name |-> <<"m">>, description |-> <<"a">>, tags |-> (<<"a">> :> <<"1">>),
       order |-> <<<<"a">>>>, settings |-> st] :
        st \in { x \in NarrowSettings : x.measurement_unit = MEASUREMENT_UNITS.millis } }
    \cup
    { [name |-> <<"m">>, description |-> <<"a">>, tags |-> (<<"a">> :> <<"2">>),
       order |-> <<<<"a">>>>, settings |-> st] :
        st \in { x \in NarrowSettings : x.measurement_unit = MEASUREMENT_UNITS.seconds } }

\* two builders of one (name, id) that differ in their settings only
ReregisterBuilders ==
    { [name |-> <<"m">>, description |-> <<"a">>, tags |-> (<<"a">> :> <<"1">>),
       order |-> <<<<"a">>>>, settings |-> st] : st \in NarrowSettings }

\* builders of metrics that differ in their name (m with a = "n", n with a = "m") or
\* in the values of their tags (a = "1", b = "2" and a = "2", b = "1")
IdentityBuilders ==
    { [name |-> n, description |-> <<"a">>, tags |-> tg, order |-> o,
       settings |-> [low |-> 1, high |-> 600000, precision |-> 0,
                     measurement_unit |-> MEASUREMENT_UNITS.millis]] :
        n \in { <<"m">> }, o \in { <<<<"a">>, <<"b">>>> },
        tg \in { (<<"a">> :> <<"1">> @@ <<"b">> :> <<"2">>),
                 (<<"a">> :> <<"2">> @@ <<"b">> :> <<"1">>) } }
    \cup
    { [name |-> <<"m">>, description |-> <<"a">>, tags |-> (<<"a">> :> <<"n">>),
       order |-> <<<<"a">>>>,
       settings |-> [low |-> 1, high |-> 600000, precision |-> 0,
                     measurement_unit |-> MEASUREMENT_UNITS.millis]],
      [name |-> <<"n">>, description |-> <<"a">>, tags |-> (<<"a">> :> <<"m">>),
       order |-> <<<<"a">>>>,
       settings |-> [low |-> 1, high |-> 600000, precision |-> 0,
                     measurement_unit |-> MEASUREMENT_UNITS.millis]] }

\* the name of the Histogram of the HTTP server; n stands for
\* prometheus_http_request_duration_seconds
HTTP_REQUEST_DURATION == <<"n">>

\* the builder of start_server: HistogramBuilder::new(name, description) with
\* HistogramSettings::from(1, 600_000, 0, millis) and no tag
ServerBuilder ==
    [name |-> HTTP_REQUEST_DURATION, description |-> <<"a">>, tags |-> << >>,
     order |-> << >>,
     settings |-> [low |-> 1, high |-> 600000, precision |-> 0,
                   measurement_unit |-> MEASUREMENT_UNITS.millis]]

\* HistogramBuilder::metric_description of every builder, as a table
metric_descriptions ==
    [b \in HistogramBuilders \cup ConcurrentBuilders \cup RecorderBuilders
            \cup ReregisterBuilders \cup IdentityBuilders \cup { ServerBuilder } |->
        MetricDescription_from(b.name, b.description, b.tags, b.order)]

\* HistogramBuilder::metric_description
builder_metric_description(histogram_builder) == metric_descriptions[histogram_builder]

\* Histogram::new_recorder: the recorder writes into the distribution of the
\* Histogram (name, id) and remembers the unit of its settings
new_recorder(metric) ==
    [name |-> metric.metric_description.name,
     id |-> metric.metric_description.id,
     measurement_unit |-> metric.histogram_settings.measurement_unit]

\* hdr_histogram.into_sync() of a new HdrHistogram: nothing merged, nothing held by
\* recorders
NewSyncHistogram == [merged |-> EmptyHdr, recorders |-> EmptyHdr]

\* (a version of the next definition that finds no entry occupied)
entry_occupied_never(holder, metric_id) == FALSE

\* metric_holder.metrics.entry(metric_id) is Entry::Occupied
entry_occupied(holder, metric_id) == metric_id \in DOMAIN holder.metrics

\* Registry::get_or_add_metric with the builder of get_or_register_histogram
\* (Histogram::new(..).unwrap()): the storage it leaves and what it ends with
get_or_add_metric(storage, metric_description, settings) ==
    LET name     == metric_description.name
        \* entry(name).or_insert_with(|| MetricHolder::new(..))
        inserted == IF name \in DOMAIN storage THEN storage
                    ELSE [n \in DOMAIN storage \cup {name} |->
                            IF n = name
                            THEN [metric_description |-> metric_description,
                                  metrics |-> << >>]
                            ELSE storage[n]]
        holder   == inserted[name]
        metric   == [metric_description |-> metric_description,
                     histogram_settings |-> settings,
                     hdr_histogram |-> NewSyncHistogram]
    IN  IF holder.metric_description.definition_hash # metric_description.definition_hash
        THEN [storage |-> inserted,
              result |-> [kind |-> "Err", error |-> "MetricAlreadyRegDifferently"]]
        ELSE IF entry_occupied(holder, metric_description.id)
        THEN \* Entry::Occupied
             [storage |-> inserted,
              result |-> [kind |-> "Ok",
                          recorder |-> new_recorder(holder.metrics[metric_description.id])]]
        ELSE IF ~new_with_bounds_ok(settings)
        THEN \* Entry::Vacant, and Histogram::new(..).unwrap() panics
             [storage |-> inserted, result |-> [kind |-> "panic"]]
        ELSE \* Entry::Vacant
             [storage |->
                  [inserted EXCEPT ![name].metrics =
                      [i \in DOMAIN holder.metrics \cup {metric_description.id} |->
                          IF i = metric_description.id THEN metric
                          ELSE holder.metrics[i]]],
              result |-> [kind |-> "Ok", recorder |-> new_recorder(metric)]]

\* the body of Registry::get_or_register_histogram: the storage it leaves and what
\* it ends with
register_histogram(storage, histogram_builder) ==
    LET metric_desc == builder_metric_description(histogram_builder)
    IN  IF ~metric_desc.ok
        THEN [storage |-> storage,
              result |-> [kind |-> "Err", error |-> metric_desc.error]]
        ELSE get_or_add_metric(storage, metric_desc.value, histogram_builder.settings)

\* Registry::get_or_register_histogram.  The first guard is the bound of the model.
get_or_register_histogram(histogram_builder) ==
    /\ registrations < MaxRegistrations
    /\ LET r == register_histogram(histograms_storage, histogram_builder)
       IN  /\ histograms_storage' = r.storage
           /\ reg_result' = r.result
    /\ registrations' = registrations + 1
    /\ UNCHANGED <<promVars, hiccupVars, concVars, descVars, expVars, recVars, serverVars, subVars>>

GetOrRegisterHistogram == \E b \in HistogramBuilders : get_or_register_histogram(b)

RegistryInit ==
    /\ EmptyRegistry /\ IdleProm /\ IdleHiccup /\ NoCallers /\ NothingDescribed /\ IdleExporter
    /\ IdlePipeline

RegistryNext == GetOrRegisterHistogram

SpecRegistry == RegistryInit /\ [][RegistryNext]_vars

----------------------------------------------------------------------------
(* Claims about the registry, checked under SpecRegistry *)

\* the set of the elements of a sequence
Range(q) == { q[i] : i \in DOMAIN q }

\* the builder passes the validation of MetricDescription::from
ValidBuilder(b) == builder_metric_description(b).ok

\* the builder's name is in the registry, and its description or its set of tag
\* names is not the one pinned for the name
ConflictsWithPinned(b) ==
    /\ b.name \in DOMAIN histograms_storage
    /\ LET pinned == histograms_storage[b.name].metric_description
       IN  \/ b.description # pinned.description
           \/ DOMAIN b.tags # Range(pinned.tag_names)

\* C10: for every name already in the registry, a (valid) registration under that
\* name whose description or set of tag names differs from the definition pinned
\* for the name fails with MetricAlreadyRegDifferently, creates no Histogram, and
\* leaves the pinned description and every existing Histogram unchanged.
C10_ConflictingRegistrationFails ==
    [][\A b \in HistogramBuilders :
          (ValidBuilder(b) /\ ConflictsWithPinned(b) /\ get_or_register_histogram(b))
          => /\ reg_result' = [kind |-> "Err", error |-> "MetricAlreadyRegDifferently"]
             /\ histograms_storage' = histograms_storage]_vars

\* the Histograms registered under a name (none when the name is not registered)
HistogramsOf(storage, name) ==
    IF name \in DOMAIN storage
    THEN { storage[name].metrics[i] : i \in DOMAIN storage[name].metrics }
    ELSE {}

\* the Histograms of the registry whose description is the builder's: the same
\* name, description text and tags (the order of the tags left aside)
SameDescription(storage, b) ==
    { h \in HistogramsOf(storage, b.name) :
        /\ h.metric_description.description = b.description
        /\ h.metric_description.tags = b.tags }

\* the builders of a name
BuildersNamed(name) == { b \in HistogramBuilders : b.name = name }

\* the builders with the description of a Histogram: its name, description text
\* and tags, the tags in any order, with any settings
BuildersDescribing(h) ==
    { [name |-> h.metric_description.name,
       description |-> h.metric_description.description,
       tags |-> h.metric_description.tags,
       order |-> o,
       settings |-> st] :
        o \in IterationOrders(DOMAIN h.metric_description.tags), st \in HistogramSettings }

\* C11: registering the same description (same name, description and tags, in any
\* tag order) any number of times succeeds every time, creates exactly one
\* Histogram for its id, and every returned recorder writes into that one
\* distribution.  The first registration of a description under a new name, with
\* bounds HdrHistogram accepts, succeeds and creates the one Histogram; every
\* registration of the description of a Histogram of the registry succeeds,
\* returns a recorder of that Histogram and creates nothing.
C11_SameDescriptionOneHistogram ==
    [][/\ \A name \in { n \in MetricNames : is_tag_metric_name(n) }
                          \ DOMAIN histograms_storage :
          \A b \in BuildersNamed(name) :
             (/\ new_with_bounds_ok(b.settings)
              /\ ValidBuilder(b)
              /\ get_or_register_histogram(b))
             => /\ reg_result'.kind = "Ok"
                /\ Cardinality(HistogramsOf(histograms_storage', b.name)) = 1
                /\ SameDescription(histograms_storage', b)
                       = HistogramsOf(histograms_storage', b.name)
       /\ \A name \in DOMAIN histograms_storage :
          \A h \in HistogramsOf(histograms_storage, name) :
          \A b \in BuildersDescribing(h) :
             get_or_register_histogram(b)
             => /\ SameDescription(histograms_storage, b) = {h}
                /\ reg_result' = [kind |-> "Ok", recorder |-> new_recorder(h)]
                /\ histograms_storage' = histograms_storage]_vars

\* a second call has returned a recorder of the one Histogram of the registry, a
\* Histogram with two tags
C11_Witness ==
    /\ registrations = 2
    /\ reg_result.kind = "Ok"
    /\ \E h \in HistogramsOf(histograms_storage, <<"m">>) :
          /\ HistogramsOf(histograms_storage, <<"m">>) = {h}
          /\ Len(h.metric_description.tag_names) = 2
          /\ reg_result.recorder = new_recorder(h)

\* the builder has the description text and the tag names pinned for its name, and
\* tag values no Histogram registered under the name has
FansOut(b) ==
    /\ b.name \in DOMAIN histograms_storage
    /\ b.description = histograms_storage[b.name].metric_description.description
    /\ DOMAIN b.tags = Range(histograms_storage[b.name].metric_description.tag_names)
    /\ HistogramsOf(histograms_storage, b.name) # {}
    /\ \A h \in HistogramsOf(histograms_storage, b.name) : h.metric_description.tags # b.tags

\* C12: registering under an existing name a description with the same description
\* text and tag names but different tag values (with bounds HdrHistogram accepts)
\* succeeds and adds a second, separate Histogram under the same holder, without
\* touching the first one.
C12_DifferentTagValuesFanOut ==
    [][\A name \in DOMAIN histograms_storage :
       \A b \in BuildersNamed(name) :
          (/\ FansOut(b)
           /\ new_with_bounds_ok(b.settings)
           /\ ValidBuilder(b)
           /\ get_or_register_histogram(b))
          => /\ reg_result'.kind = "Ok"
             /\ HistogramsOf(histograms_storage, name)
                    \subseteq HistogramsOf(histograms_storage', name)
             /\ Cardinality(HistogramsOf(histograms_storage', name))
                    = Cardinality(HistogramsOf(histograms_storage, name)) + 1
             /\ \E h \in SameDescription(histograms_storage', b) :
                    reg_result'.recorder = new_recorder(h)]_vars

\* the metric name, some tag name or some tag value of the builder breaks the rules
\* of metric.rs
InvalidIdentity(b) ==
    \/ ~is_tag_metric_name(b.name)
    \/ \E t \in DOMAIN b.tags : ~is_valid_tag_name(t) \/ ~is_valid_tag_value(b.tags[t])

\* the builders with an invalid identity
InvalidBuilders == { b \in HistogramBuilders : InvalidIdentity(b) }

\* C14: a registration whose metric name, some tag name or some tag value violates
\* the validation rules returns an error before the registry is touched: no holder
\* and no Histogram is created for it.  In every state of the registry, the call
\* with such a builder ends with the error and leaves the storage as it is.
C14_InvalidIdentityRejected ==
    \A b \in InvalidBuilders :
        register_histogram(histograms_storage, b)
            = [storage |-> histograms_storage,
               result |-> [kind |-> "Err", error |-> "Msg"]]

\* a registration has been rejected for its identity while the registry holds a
\* Histogram
C14_Witness ==
    /\ registrations = 2
    /\ reg_result = [kind |-> "Err", error |-> "Msg"]
    /\ HistogramsOf(histograms_storage, <<"m">>) # {}

\* the builders with a valid identity and bounds HdrHistogram rejects
InvalidBoundsBuilders ==
    { b \in HistogramBuilders : ~InvalidIdentity(b) /\ ~new_with_bounds_ok(b.settings) }

\* C15: a registration with invalid histogram bounds (low = 0, high < low, or
\* precision > 5) is surfaced to the caller as a validation error value at
\* registration and leaves the registry unchanged (no holder pinned for the name,
\* no Histogram created).
C15_InvalidBoundsRejected ==
    \A b \in InvalidBoundsBuilders :
        register_histogram(histograms_storage, b)
            = [storage |-> histograms_storage,
               result |-> [kind |-> "Err", error |-> "Msg"]]

----------------------------------------------------------------------------
(* Concurrent callers of Registry::get_or_register_histogram.  A call is taken *)
(* step by step: entry(name).or_insert_with(..) takes the write lock of the    *)
(* name's shard and the RefMut it returns keeps the lock until the call        *)
(* returns or unwinds.                                                         *)

\* the shards of histograms_storage that the names of the callers hash to
Shards == { 1, 2 }

\* (a version of the next definition in which entry() waits for no lock)
shard_is_free_always(name) == TRUE

\* no caller holds the write lock of the shard of the name
shard_is_free(name) == shard_locks[shard_of[name]] = None

\* the metric description of the call the caller is in
description_of(p) == builder_metric_description(callers[p].builder).value

\* the caller comes back with the result, gives up the lock it holds and leaves the
\* worker thread that ran it
return_with(p, result) ==
    /\ callers' = [callers EXCEPT ![p].pc = "returned", ![p].result = result]
    /\ shard_locks' = [sh \in DOMAIN shard_locks |->
                          IF shard_locks[sh] = p THEN None ELSE shard_locks[sh]]
    /\ workers' = [w \in DOMAIN workers |-> IF workers[w] = p THEN None ELSE workers[w]]
    /\ UNCHANGED histogram_writer

\* get_or_register_histogram is called: histogram_builder.metric_description()?
call(p, histogram_builder) ==
    /\ callers[p].pc = "idle"
    /\ IF builder_metric_description(histogram_builder).ok
       THEN callers' = [callers EXCEPT ![p] = [pc |-> "entry",
                                               builder |-> histogram_builder,
                                               result |-> [kind |-> "none"]]]
       ELSE callers' = [callers EXCEPT ![p] =
                            [pc |-> "returned",
                             builder |-> histogram_builder,
                             result |-> [kind |-> "Err", error |-> "Msg"]]]
    /\ UNCHANGED <<shard_of, shard_locks, workers, histogram_writer, regVars>>
    /\ UNCHANGED <<promVars, hiccupVars, descVars, expVars, recVars, serverVars, subVars>>

\* metrics_storage.entry(name).or_insert_with(|| MetricHolder::new(..))
entry_or_insert_with(p) ==
    /\ callers[p].pc = "entry"
    /\ shard_is_free(description_of(p).name)
    /\ shard_locks' = [shard_locks EXCEPT ![shard_of[description_of(p).name]] = p]
    /\ LET name == description_of(p).name
       IN  histograms_storage' =
               IF name \in DOMAIN histograms_storage THEN histograms_storage
               ELSE [n \in DOMAIN histograms_storage \cup {name} |->
                       IF n = name
                       THEN [metric_description |-> description_of(p), metrics |-> << >>]
                       ELSE histograms_storage[n]]
    /\ callers' = [callers EXCEPT ![p].pc = "holder"]
    /\ UNCHANGED <<shard_of, workers, histogram_writer, reg_result, registrations>>
    /\ UNCHANGED <<promVars, hiccupVars, descVars, expVars, recVars, serverVars, subVars>>

\* ref_mut.value().read().await is Pending: a tick holds the write guard of the
\* Histogram
read_pending(key) == histogram_writer = key

\* the comparison of the definition hashes and metric_holder.metrics.entry(metric_id).
\* Entry::Occupied: when read().await is Pending the task is suspended: it leaves
\* its worker thread and keeps the RefMut of entry(name), the write lock of the
\* shard.
entry_metric(p) ==
    /\ callers[p].pc = "holder"
    /\ LET holder == histograms_storage[description_of(p).name]
       IN  IF holder.metric_description.definition_hash # description_of(p).definition_hash
           THEN return_with(p, [kind |-> "Err", error |-> "MetricAlreadyRegDifferently"])
           ELSE IF entry_occupied(holder, description_of(p).id)
           THEN IF read_pending(<<description_of(p).name, description_of(p).id>>)
                THEN /\ callers' = [callers EXCEPT ![p].pc = "awaiting"]
                     /\ workers' = [w \in DOMAIN workers |->
                                       IF workers[w] = p THEN None ELSE workers[w]]
                     /\ UNCHANGED <<shard_locks, histogram_writer>>
                ELSE return_with(p, [kind |-> "Ok",
                                     recorder |->
                                         new_recorder(holder.metrics[description_of(p).id])])
           ELSE /\ callers' = [callers EXCEPT ![p].pc = "vacant"]
                /\ UNCHANGED <<shard_locks, workers, histogram_writer>>
    /\ UNCHANGED <<shard_of, regVars>>
    /\ UNCHANGED <<promVars, hiccupVars, descVars, expVars, recVars, serverVars, subVars>>

\* Entry::Vacant: builder(metric_description), new_recorder(&metric), entry.insert(..)
vacant_insert(p) ==
    /\ callers[p].pc = "vacant"
    /\ LET name   == description_of(p).name
           metric == [metric_description |-> description_of(p),
                      histogram_settings |-> callers[p].builder.settings,
                      hdr_histogram |-> NewSyncHistogram]
       IN  IF ~new_with_bounds_ok(callers[p].builder.settings)
           THEN /\ return_with(p, [kind |-> "panic"])
                /\ UNCHANGED histograms_storage
           ELSE /\ return_with(p, [kind |-> "Ok", recorder |-> new_recorder(metric)])
                /\ histograms_storage' =
                       [histograms_storage EXCEPT ![name].metrics =
                           [i \in DOMAIN histograms_storage[name].metrics
                                    \cup {description_of(p).id} |->
                               IF i = description_of(p).id THEN metric
                               ELSE histograms_storage[name].metrics[i]]]
    /\ UNCHANGED <<shard_of, reg_result, registrations>>
    /\ UNCHANGED <<promVars, hiccupVars, descVars, expVars, recVars, serverVars, subVars>>

Call == \E p \in DOMAIN callers, b \in ConcurrentBuilders : call(p, b)
EntryOrInsertWith == \E p \in DOMAIN callers : entry_or_insert_with(p)
EntryMetric == \E p \in DOMAIN callers : entry_metric(p)
VacantInsert == \E p \in DOMAIN callers : vacant_insert(p)

\* MaxCallers callers about to call; the two names hash to one shard or to two
InitCallers ==
    /\ callers = [p \in 1..MaxCallers |->
                     [pc |-> "idle", builder |-> None, result |-> [kind |-> "none"]]]
    /\ shard_of \in { [n \in { <<"m">>, <<"n">> } |-> 1],
                      [n \in { <<"m">>, <<"n">> } |-> IF n = <<"m">> THEN 1 ELSE 2] }
    /\ shard_locks = [sh \in Shards |-> None]
    /\ workers = << >>
    /\ histogram_writer = << >>

ConcurrentInit ==
    /\ InitCallers /\ EmptyRegistry /\ IdleProm /\ IdleHiccup /\ NothingDescribed /\ IdleExporter
    /\ IdlePipeline

ConcurrentNext == Call \/ EntryOrInsertWith \/ EntryMetric \/ VacantInsert

SpecConcurrent == ConcurrentInit /\ [][ConcurrentNext]_vars

----------------------------------------------------------------------------
(* Claims about concurrent registration, checked under SpecConcurrent *)

\* the callers that have returned from a call that passed the validation
ReturnedCallers ==
    { p \in DOMAIN callers :
        /\ callers[p].pc = "returned"
        /\ builder_metric_description(callers[p].builder).ok }

\* the callers that have been through entry(name).or_insert_with(..) for the name
EnteredCallers(name) ==
    { p \in DOMAIN callers :
        /\ callers[p].pc \in { "holder", "vacant", "returned" }
        /\ builder_metric_description(callers[p].builder).ok
        /\ description_of(p).name = name }

\* what holds of the callers that have returned: the call of a definition whose hash
\* is not the pinned one has failed, and a successful call has the recorder of the
\* Histogram registered under its name and id
ReturnedAsPinned ==
    \A p \in ReturnedCallers :
        LET d == description_of(p)
        IN  /\ d.name \in DOMAIN histograms_storage
            /\ d.definition_hash # histograms_storage[d.name].metric_description.definition_hash
                   => callers[p].result = [kind |-> "Err",
                                           error |-> "MetricAlreadyRegDifferently"]
            /\ callers[p].result.kind = "Ok"
                   => /\ d.definition_hash
                             = histograms_storage[d.name].metric_description.definition_hash
                      /\ d.id \in DOMAIN histograms_storage[d.name].metrics
                      /\ callers[p].result.recorder
                             = new_recorder(histograms_storage[d.name].metrics[d.id])

\* C13: registration is atomic per name under any interleaving of concurrent
\* get_or_register_histogram calls.  The definition pinned for a name is the
\* definition of a caller that went through the entry, and it never changes; a
\* Histogram, once registered under a (name, id), is never replaced; every caller
\* whose definition hash is not the pinned one fails with
\* MetricAlreadyRegDifferently, and every successful caller has a recorder of the
\* one Histogram of its (name, id).
C13_RegistrationAtomicPerName ==
    [][/\ \A name \in DOMAIN histograms_storage :
             /\ name \in DOMAIN histograms_storage'
             /\ histograms_storage'[name].metric_description
                    = histograms_storage[name].metric_description
             /\ \A i \in DOMAIN histograms_storage[name].metrics :
                    /\ i \in DOMAIN histograms_storage'[name].metrics
                    /\ histograms_storage'[name].metrics[i]
                           = histograms_storage[name].metrics[i]
       /\ \A name \in DOMAIN histograms_storage' :
             \E p \in EnteredCallers(name)' :
                 description_of(p)' = histograms_storage'[name].metric_description
       /\ ReturnedAsPinned']_vars

\* two callers raced for one name with two definitions: one has its recorder, the
\* other the error
C13_Witness ==
    \E p, q \in ReturnedCallers :
        /\ description_of(p).name = description_of(q).name
        /\ callers[p].result.kind = "Ok"
        /\ callers[q].result = [kind |-> "Err", error |-> "MetricAlreadyRegDifferently"]

----------------------------------------------------------------------------
(* MetricDescription::from on its own: the descriptions built in one behaviour *)

\* MetricDescription::from(name, description, tags), tags iterating in the order
\* given.  The first guard is the bound of the model.
metric_description_from(name, description, tags, order) ==
    /\ Len(described) < MaxDescribed
    /\ described' = Append(described, MetricDescription_from(name, description, tags, order))
    /\ UNCHANGED <<promVars, hiccupVars, regVars, concVars, expVars, recVars, serverVars, subVars>>

MetricDescriptionFrom ==
    \E name \in MetricNames \cup { <<"n">> }, description \in Descriptions,
       tags \in TagMaps \cup MalformedTagMaps :
        \E order \in IterationOrders(DOMAIN tags) :
            metric_description_from(name, description, tags, order)

DescriptionInit ==
    /\ NothingDescribed /\ IdleProm /\ IdleHiccup /\ EmptyRegistry /\ NoCallers /\ IdleExporter
    /\ IdlePipeline

DescriptionNext == MetricDescriptionFrom

SpecDescription == DescriptionInit /\ [][DescriptionNext]_vars

----------------------------------------------------------------------------
(* Claims about MetricDescription, checked under SpecDescription *)

\* the MetricDescriptions built so far
BuiltDescriptions == { described[i].value : i \in { k \in DOMAIN described : described[k].ok } }

\* the multiset of the tag values of a description: how often each value occurs
TagValueBag(d) ==
    [v \in { d.tags[t] : t \in DOMAIN d.tags } |->
        Cardinality({ t \in DOMAIN d.tags : d.tags[t] = v })]

\* C16: the id of a MetricDescription is a function of the name and the multiset of
\* tag values only: two descriptions with the same name and the same multiset of tag
\* values have the same id, whatever the order of their tag maps, their description
\* texts and their tag names.
C16_IdOfNameAndTagValues ==
    \A d1, d2 \in BuiltDescriptions :
        (d1.name = d2.name /\ TagValueBag(d1) = TagValueBag(d2)) => d1.id = d2.id

\* two descriptions of one name and one multiset of two distinct tag values were
\* built from maps iterating in different orders, with different description texts
C16_Witness ==
    \E d1, d2 \in BuiltDescriptions :
        /\ d1.name = d2.name
        /\ TagValueBag(d1) = TagValueBag(d2)
        /\ Len(d1.tag_names) = 2
        /\ d1.tags[d1.tag_names[1]] # d1.tags[d1.tag_names[2]]
        /\ d1.tags = d2.tags
        /\ d1.tag_names # d2.tag_names
        /\ \E d3 \in BuiltDescriptions : d3.description # d1.description

\* C17: the definition_hash of a MetricDescription is determined by the name, the
\* description and the set of tag names only: two descriptions that agree on these
\* have the same definition_hash, whatever the order of their tags and their tag
\* values.
C17_DefinitionHashOfNameDescriptionTagNames ==
    \A d1, d2 \in BuiltDescriptions :
        (/\ d1.name = d2.name
         /\ d1.description = d2.description
         /\ DOMAIN d1.tags = DOMAIN d2.tags)
        => d1.definition_hash = d2.definition_hash

\* two descriptions of one name, description and set of two tag names were built
\* with the tags in different orders and with different tag values
C17_Witness ==
    \E d1, d2 \in BuiltDescriptions :
        /\ d1.name = d2.name
        /\ d1.description = d2.description
        /\ DOMAIN d1.tags = DOMAIN d2.tags
        /\ Len(d1.tag_names) = 2
        /\ d1.tag_names # d2.tag_names
        /\ d1.tags # d2.tags

\* C18: two valid MetricDescriptions that differ in name, in description text or in
\* their set of tag names have different definition_hash, and two that differ in a
\* tag value have different id.
C18_HashesSeparate ==
    \A d1, d2 \in BuiltDescriptions :
        /\ (\/ d1.name # d2.name
            \/ d1.description # d2.description
            \/ DOMAIN d1.tags # DOMAIN d2.tags)
           => d1.definition_hash # d2.definition_hash
        /\ (/\ DOMAIN d1.tags = DOMAIN d2.tags
            /\ \E t \in DOMAIN d1.tags : d1.tags[t] # d2.tags[t])
           => d1.id # d2.id

----------------------------------------------------------------------------
(* The producer of snapshots: MetricsExporter::tick over the registry, with       *)
(* recorders writing into the registered Histograms.  A SyncHistogram is the      *)
(* distribution merged by refresh and the values its recorders still hold.        *)

\* the pointwise sum and difference of two distributions
hdr_add(h1, h2) == [v \in 0..MaxValue |-> h1[v] + h2[v]]
hdr_subtract(h1, h2) == [v \in 0..MaxValue |-> h1[v] - h2[v]]

\* the parts of a distribution: at each value from v on, some of its count
RECURSIVE hdr_parts_from(_, _)
hdr_parts_from(hdr, v) ==
    IF v > MaxValue THEN { EmptyHdr }
    ELSE { [h EXCEPT ![v] = n] : h \in hdr_parts_from(hdr, v + 1), n \in 0..hdr[v] }

hdr_parts(hdr) == hdr_parts_from(hdr, 0)

\* hdr.max(): the highest recorded value, 0 when nothing is recorded
hdr_max(hdr) ==
    IF \A v \in 0..MaxValue : hdr[v] = 0 THEN 0
    ELSE CHOOSE v \in 0..MaxValue :
             hdr[v] > 0 /\ \A u \in 0..MaxValue : hdr[u] > 0 => u <= v

\* the count record_n_correct adds at value v for the values recorded at u and
\* above: a value u > interval is also recorded at u - interval, u - 2 * interval,
\* .. as long as that is at least interval
RECURSIVE corrections_from(_, _, _, _)
corrections_from(hdr, interval, v, u) ==
    IF u > MaxValue THEN 0
    ELSE (IF u > interval /\ u > v /\ v >= interval /\ (u - v) % interval = 0
          THEN hdr[u] ELSE 0)
         + corrections_from(hdr, interval, v, u + 1)

\* hdr.clone_correct(interval)
clone_correct(hdr, interval) ==
    [v \in 0..MaxValue |->
        hdr[v] + (IF interval = 0 THEN 0 ELSE corrections_from(hdr, interval, v, 0))]

\* (a version of the next definition that never resets)
sample_without_reset(histogram, phased, reset) ==
    LET merged == hdr_add(histogram.hdr_histogram.merged, phased)
    IN  [histogram |->
             [histogram EXCEPT !.hdr_histogram =
                 [merged |-> merged,
                  recorders |-> hdr_subtract(histogram.hdr_histogram.recorders, phased)]],
         histogram_sample |->
             HistogramSample(clone_correct(merged, hdr_max(merged)),
                             histogram.histogram_settings.measurement_unit)]

\* Histogram::sample(reset): refresh_timeout merges what the recorders hand over
\* within the millisecond (phased), the merged distribution is cloned and, with
\* reset, cleared.  The Histogram it leaves and the HistogramSample it returns.
sample(histogram, phased, reset) ==
    LET merged == hdr_add(histogram.hdr_histogram.merged, phased)
    IN  [histogram |->
             [histogram EXCEPT !.hdr_histogram =
                 [merged |-> IF reset THEN EmptyHdr ELSE merged,
                  recorders |-> hdr_subtract(histogram.hdr_histogram.recorders, phased)]],
         histogram_sample |->
             HistogramSample(clone_correct(merged, hdr_max(merged)),
                             histogram.histogram_settings.measurement_unit)]

\* the Histograms of the registry, each as its (name, id)
HistogramKeys(storage) ==
    UNION { { <<name, i>> : i \in DOMAIN storage[name].metrics } : name \in DOMAIN storage }

\* the Histogram of a key
histogram_at(storage, key) == storage[key[1]].metrics[key[2]]

\* the observations a behaviour has in the Histograms, in the samples of the tick in
\* progress and in the snapshot last sent
RECURSIVE samples_len(_)
samples_len(samples) ==
    IF samples = << >> THEN 0
    ELSE hdr_len(Head(samples).histogram_sample.hdr_histogram) + samples_len(Tail(samples))

RECURSIVE snapshots_len(_)
snapshots_len(snapshots) ==
    IF snapshots = << >> THEN 0
    ELSE samples_len(Head(snapshots).samples) + snapshots_len(Tail(snapshots))

RECURSIVE recorded_len(_, _)
recorded_len(storage, keys) ==
    IF keys = {} THEN 0
    ELSE LET key == CHOOSE k \in keys : TRUE
         IN  hdr_len(histogram_at(storage, key).hdr_histogram.recorders)
                 + hdr_len(histogram_at(storage, key).hdr_histogram.merged)
                 + recorded_len(storage, keys \ {key})

observations_held ==
    recorded_len(histograms_storage, HistogramKeys(histograms_storage))
        + samples_len(tick_samples)
        + snapshots_len(sent_snapshots)

\* HistogramRecorder::record(value) on a recorder of the Histogram key: the value
\* goes to the recorder's own histogram; a value above high is refused and dropped.
\* The first guard is the bound of the model.
recorder_record(key, value) ==
    /\ observations_held < MaxRecorded
    /\ key \in HistogramKeys(histograms_storage)
    /\ histograms_storage' =
           IF value > histogram_at(histograms_storage, key).histogram_settings.high
           THEN histograms_storage
           ELSE [histograms_storage EXCEPT
                    ![key[1]].metrics[key[2]].hdr_histogram.recorders[value] = @ + 1]
    /\ UNCHANGED <<reg_result, registrations, expVars>>
    /\ UNCHANGED <<promVars, hiccupVars, concVars, descVars, recVars, serverVars, subVars>>

\* tick(): current_millis() and registry.histograms(), in the order the DashMaps
\* iterate in
tick_start(timestamp_in_millis, metrics) ==
    /\ tick_pc = "idle"
    /\ Range(metrics) = HistogramKeys(histograms_storage)
    /\ Len(metrics) = Cardinality(HistogramKeys(histograms_storage))
    /\ tick_pc' = "sampling"
    /\ tick_timestamp' = timestamp_in_millis
    /\ tick_metrics' = metrics
    /\ tick_samples' = << >>
    /\ UNCHANGED <<sent_snapshots, regVars>>
    /\ UNCHANGED <<promVars, hiccupVars, concVars, descVars, recVars, serverVars, subVars>>

\* one turn of the loop of tick(): metric.write().await and sample_histograms.
\* phased is what the recorders hand over to refresh_timeout in time; timed_out
\* says that the millisecond ran out (it does when a recorder holds values back)
tick_sample(phased, timed_out) ==
    /\ tick_pc = "sampling"
    /\ Len(tick_samples) < Len(tick_metrics)
    /\ LET key       == tick_metrics[Len(tick_samples) + 1]
           histogram == histogram_at(histograms_storage, key)
           sampled   == sample(histogram, phased, TRUE)
       IN  /\ \A v \in 0..MaxValue : phased[v] <= histogram.hdr_histogram.recorders[v]
           /\ phased # histogram.hdr_histogram.recorders => timed_out
           /\ histograms_storage' =
                  [histograms_storage EXCEPT ![key[1]].metrics[key[2]] = sampled.histogram]
           /\ tick_samples' =
                  Append(tick_samples,
                         [kind |-> "Histogram",
                          metric_description |-> histogram.metric_description,
                          histogram_sample |-> sampled.histogram_sample])
    /\ UNCHANGED <<tick_pc, tick_timestamp, tick_metrics, sent_snapshots>>
    /\ UNCHANGED <<reg_result, registrations>>
    /\ UNCHANGED <<promVars, hiccupVars, concVars, descVars, recVars, serverVars, subVars>>

\* the end of tick() and sender.send(Arc::new(metric_snapshot))
tick_send ==
    /\ tick_pc = "sampling"
    /\ Len(tick_samples) = Len(tick_metrics)
    /\ sent_snapshots' = <<[samples |-> tick_samples, timestamp_in_millis |-> tick_timestamp]>>
    /\ tick_pc' = "idle"
    /\ tick_timestamp' = 0
    /\ tick_metrics' = << >>
    /\ tick_samples' = << >>
    /\ UNCHANGED regVars
    /\ UNCHANGED <<promVars, hiccupVars, concVars, descVars, recVars, serverVars, subVars>>

\* the builders of the metrics the producer samples: one name, the tag a with two
\* values, each with its settings
ExporterBuilders ==
    { b \in HistogramBuilders :
        /\ b.name = <<"m">> /\ b.description = <<"a">> /\ DOMAIN b.tags = { <<"a">> }
        /\ \/ b.tags[<<"a">>] = <<"1">> /\ b.settings.measurement_unit = MEASUREMENT_UNITS.seconds
           \/ b.tags[<<"a">>] = <<"2">> /\ b.settings.measurement_unit = MEASUREMENT_UNITS.millis
        /\ new_with_bounds_ok(b.settings) }

ExporterRegister == \E b \in ExporterBuilders : get_or_register_histogram(b)

\* the values the recorders are given: the lowest and the highest of the model
RecordedValues == { 0, MaxValue }

\* what current_millis() returns to a tick
TickTimes == { 0, 1 }

RecorderRecord ==
    \E key \in HistogramKeys(histograms_storage), value \in RecordedValues :
        recorder_record(key, value)

TickStart ==
    \E timestamp_in_millis \in TickTimes,
       metrics \in IterationOrders(HistogramKeys(histograms_storage)) :
        tick_start(timestamp_in_millis, metrics)

\* what the recorders of the Histogram next in turn can hand over
Phased ==
    IF tick_pc = "sampling" /\ Len(tick_samples) < Len(tick_metrics)
    THEN hdr_parts(histogram_at(histograms_storage,
                                tick_metrics[Len(tick_samples) + 1]).hdr_histogram.recorders)
    ELSE {}

TickSample == \E phased \in Phased, timed_out \in BOOLEAN : tick_sample(phased, timed_out)

ExporterInit ==
    /\ IdleExporter /\ EmptyRegistry /\ IdleProm /\ IdleHiccup /\ NoCallers /\ NothingDescribed
    /\ IdlePipeline

ExporterNext == ExporterRegister \/ RecorderRecord \/ TickStart \/ TickSample \/ tick_send

SpecExporter == ExporterInit /\ [][ExporterNext]_vars

(* Claims about the producer of snapshots. *)

\* the Histogram a turn of the loop of tick() is about to sample
NextInTurn == tick_metrics[Len(tick_samples) + 1]

\* a step that starts a tick, a step that samples one Histogram, a step that sends
TickStarts == tick_pc = "idle" /\ tick_pc' = "sampling"
TickSamples == tick_pc = "sampling" /\ tick_pc' = "sampling" /\ tick_samples' # tick_samples
TickSends == tick_pc = "sampling" /\ tick_pc' = "idle"

\* C19: a tick takes every Histogram registered when it starts exactly once; the
\* sample of a Histogram has the Histogram's description and holds exactly the values
\* that leave the Histogram with it (what was merged and what its recorders handed
\* over), the Histogram is left with nothing merged, so that no value is kept for a
\* second sample and none is lost, and no other Histogram is touched; the snapshot
\* sent has one sample per Histogram of the tick, in the tick's order.
C19_TickSamplesEachHistogramOnceAndResets ==
    [][ /\ TickStarts =>
            /\ Range(tick_metrics') = HistogramKeys(histograms_storage)
            /\ Len(tick_metrics') = Cardinality(HistogramKeys(histograms_storage))
            /\ tick_samples' = << >>
        /\ TickSamples =>
            LET before == histogram_at(histograms_storage, NextInTurn)
                after  == histogram_at(histograms_storage', NextInTurn)
                taken  == tick_samples'[Len(tick_samples')]
            IN  /\ tick_samples' = Append(tick_samples, taken)
                /\ taken.metric_description = before.metric_description
                /\ taken.histogram_sample.measurement_unit =
                       before.histogram_settings.measurement_unit
                /\ after.hdr_histogram.merged = EmptyHdr
                /\ \A v \in 0..MaxValue :
                       before.hdr_histogram.merged[v] + before.hdr_histogram.recorders[v]
                           = taken.histogram_sample.hdr_histogram[v]
                                 + after.hdr_histogram.recorders[v]
                /\ \A key \in HistogramKeys(histograms_storage) \ { NextInTurn } :
                       histogram_at(histograms_storage', key)
                           = histogram_at(histograms_storage, key)
        /\ TickSends =>
            /\ Len(sent_snapshots') = 1
            /\ sent_snapshots'[1].samples = tick_samples
            /\ Len(tick_samples) = Len(tick_metrics)
            /\ \A i \in DOMAIN tick_metrics :
                   tick_samples[i].metric_description
                       = histogram_at(histograms_storage, tick_metrics[i]).metric_description
      ]_vars

\* a snapshot of two Histograms was sent, one of its samples holds a value, and
\* nothing stays merged in a Histogram
C19_Witness ==
    /\ sent_snapshots # << >>
    /\ Len(sent_snapshots[1].samples) = 2
    /\ \E i \in 1..2 : hdr_len(sent_snapshots[1].samples[i].histogram_sample.hdr_histogram) > 0
    /\ \A key \in HistogramKeys(histograms_storage) :
           histogram_at(histograms_storage, key).hdr_histogram.merged = EmptyHdr

\* C20: a turn of the loop whose refresh timed out (the recorders of the Histogram
\* held values back) adds no sample and leaves the Histogram as it was.
C20_TimedOutRefreshSkipsHistogram ==
    [][ \A phased \in Phased :
            ( /\ phased # histogram_at(histograms_storage, NextInTurn).hdr_histogram.recorders
              /\ tick_sample(phased, TRUE) )
            => /\ tick_samples' = tick_samples
               /\ histogram_at(histograms_storage', NextInTurn)
                      = histogram_at(histograms_storage, NextInTurn)
      ]_vars

\* C23: a snapshot handed to the channel carries a timestamp that is not below the
\* timestamp of the snapshot handed to it before.
C23_SnapshotTimestampsNonDecreasing ==
    [][ (TickSends /\ sent_snapshots # << >>) =>
            sent_snapshots'[1].timestamp_in_millis >= sent_snapshots[1].timestamp_in_millis
      ]_vars

\* the order of two ids (the hashed lists), item by item
RECURSIVE id_le(_, _)
id_le(a, b) ==
    IF a = << >> THEN TRUE
    ELSE IF b = << >> THEN FALSE
    ELSE IF Head(a) = Head(b) THEN id_le(Tail(a), Tail(b))
    ELSE str_le(Head(a), Head(b))

\* the Histograms of one name come in the order of their ids
ByIdInsideEachHolder(metrics) ==
    \A i, j \in DOMAIN metrics :
        (i < j /\ metrics[i][1] = metrics[j][1]) => id_le(metrics[i][2], metrics[j][2])

\* C25: registry.histograms() returns the Histograms in one order for one registry:
\* inside each holder, by id.
C25_HistogramsOrderDeterministic ==
    [][ TickStarts => ByIdInsideEachHolder(tick_metrics') ]_vars

\* C29: a value the hiccup sampler records goes to a recorder of a Histogram of the
\* registry: with every observation of the sampler, the values held by the
\* registry's Histograms grow by one.
C29_HiccupObservationsReachRegistry ==
    [][ sample_count' > sample_count =>
            recorded_len(histograms_storage', HistogramKeys(histograms_storage'))
                = recorded_len(histograms_storage, HistogramKeys(histograms_storage))
                      + (sample_count' - sample_count)
      ]_vars

----------------------------------------------------------------------------
(* The Prometheus text format: prometheus_encoder.rs.  A line is a record of its  *)
(* parts, each part the text the code writes.                                     *)

\* the decimal digits
Digit(d) ==
    CASE d = 0 -> "0" [] d = 1 -> "1" [] d = 2 -> "2" [] d = 3 -> "3" [] d = 4 -> "4"
      [] d = 5 -> "5" [] d = 6 -> "6" [] d = 7 -> "7" [] d = 8 -> "8" [] d = 9 -> "9"

\* Display of a u64
RECURSIVE u64_to_string(_)
u64_to_string(n) ==
    IF n < 10 THEN <<Digit(n)>> ELSE u64_to_string(n \div 10) \o <<Digit(n % 10)>>

\* the digits after the point of a number of thousandths, without trailing zeros
fraction_to_string(t) ==
    IF t % 100 = 0 THEN <<Digit(t \div 100)>>
    ELSE IF t % 10 = 0 THEN <<Digit(t \div 100), Digit((t \div 10) % 10)>>
    ELSE <<Digit(t \div 100), Digit((t \div 10) % 10), Digit(t % 10)>>

\* Display of an f64 (fixed point): the shortest decimal, no point for a whole number
f64_to_string(x) ==
    IF x % 1000 = 0 THEN u64_to_string(x \div 1000)
    ELSE u64_to_string(x \div 1000) \o <<".">> \o fraction_to_string(x % 1000)

\* c.escape_default() of a backslash, a new line or a double quote
escape_default(c) == IF c = "\n" THEN <<"\\", "n">> ELSE <<"\\", c>>

\* escape_string
RECURSIVE escape_string(_, _)
escape_string(v, include_double_quote) ==
    IF v = << >> THEN << >>
    ELSE (IF Head(v) \in {"\\", "\n"} \/ (Head(v) = "\"" /\ include_double_quote)
          THEN escape_default(Head(v))
          ELSE <<Head(v)>>)
         \o escape_string(Tail(v), include_double_quote)

\* add_label_pairs: nothing (no braces) without tags and additional labels, else the
\* tags in the order the HashMap iterates in, then the additional labels
add_label_pairs(tags, order, additional_labels) ==
    [i \in 1..Len(order) |->
        [label_name |-> order[i], label_value |-> escape_string(tags[order[i]], TRUE)]]
    \o [i \in 1..Len(additional_labels) |->
        [label_name |-> additional_labels[i][1],
         label_value |-> escape_string(additional_labels[i][2], TRUE)]]

\* write_sample: the name, the label pairs, the value and the timestamp
write_sample(name, metric_description, order, additional_labels, value, timestamp) ==
    [kind |-> "sample",
     name |-> name,
     labels |-> add_label_pairs(metric_description.tags, order, additional_labels),
     value |-> value,
     timestamp |-> u64_to_string(timestamp)]

\* encode_histogram of a PrometheusHistogram, as the list of its lines
encode_histogram(histogram, order) ==
    LET metric_description == histogram.metric_description
        name == metric_description.name
        help == metric_description.description
        bucket_line(i) ==
            write_sample(name \o <<"_", "b", "u", "c", "k", "e", "t">>,
                         metric_description, order,
                         <<<<<<"l", "e">>,
                             IF i = Len(histogram.buckets)
                             THEN <<"+", "I", "n", "f">>
                             ELSE f64_to_string(histogram.buckets[i].bound)>>>>,
                         u64_to_string(histogram.buckets[i].count),
                         histogram.timestamp_ms)
    IN  (IF help # << >>
         THEN <<[kind |-> "HELP", name |-> name, help |-> escape_string(help, FALSE)]>>
         ELSE << >>)
        \o <<[kind |-> "TYPE", name |-> name, type |-> "histogram"]>>
        \o [i \in 1..Len(histogram.buckets) |-> bucket_line(i)]
        \o <<write_sample(name \o <<"_", "s", "u", "m">>, metric_description, order, << >>,
                          f64_to_string(histogram.sum), histogram.timestamp_ms),
             write_sample(name \o <<"_", "c", "o", "u", "n", "t">>, metric_description,
                          order, << >>,
                          u64_to_string(histogram.count), histogram.timestamp_ms)>>

\* the descriptions of the metrics encoded: without and with a description (one with
\* a backslash), without tags, with one and with two
EncodedDescriptions ==
    { MetricDescription_from(<<"m">>, description, tags, order).value :
        description \in { << >>, <<"a">>, <<"\\", "a">> },
        tags \in { << >>, (<<"a">> :> <<"1">>), (<<"a">> :> <<"1">> @@ <<"b">> :> <<"2">>) },
        order \in { << >> } }

\* the PrometheusHistogram of a description, with the buckets, sum, count and
\* timestamp of the state
ThePrometheusHistogram(metric_description) ==
    [metric_description |-> metric_description, buckets |-> buckets, sum |-> sum,
     count |-> count, timestamp_ms |-> timestamp_ms]

\* the text of a name followed by a suffix
BucketName(name) == name \o <<"_", "b", "u", "c", "k", "e", "t">>
SumName(name) == name \o <<"_", "s", "u", "m">>
CountName(name) == name \o <<"_", "c", "o", "u", "n", "t">>

\* C30: the lines of a PrometheusHistogram with b finite bounds are one HELP line, one
\* TYPE line, b + 1 _bucket lines in ascending order of their bounds, the last with
\* le="+Inf" and the count as its value, one _sum line and one _count line, in this
\* order; every sample line carries timestamp_ms, and le is the last label of every
\* _bucket line.
C30_EncodeHistogramLines ==
    \A metric_description \in EncodedDescriptions :
        \A order \in IterationOrders(DOMAIN metric_description.tags) :
            LET lines == encode_histogram(ThePrometheusHistogram(metric_description), order)
                name  == metric_description.name
                b     == Len(buckets) - 1
            IN  /\ Len(lines) = b + 5
                /\ lines[1].kind = "HELP" /\ lines[1].name = name
                /\ lines[2].kind = "TYPE" /\ lines[2].name = name
                /\ \A i \in 1..(b + 1) :
                       LET line == lines[2 + i]
                       IN  /\ line.kind = "sample"
                           /\ line.name = BucketName(name)
                           /\ Len(line.labels) = Len(order) + 1
                           /\ line.labels[Len(line.labels)].label_name = <<"l", "e">>
                           /\ line.labels[Len(line.labels)].label_value =
                                  IF i = b + 1 THEN <<"+", "I", "n", "f">>
                                  ELSE f64_to_string(buckets[i].bound)
                           /\ line.value = u64_to_string(buckets[i].count)
                           /\ i <= b => buckets[i].bound < buckets[i + 1].bound
                /\ lines[b + 3].value = u64_to_string(count)
                /\ lines[b + 4].kind = "sample" /\ lines[b + 4].name = SumName(name)
                /\ lines[b + 5].kind = "sample" /\ lines[b + 5].name = CountName(name)
                /\ lines[b + 5].value = u64_to_string(count)
                /\ \A i \in 3..(b + 5) : lines[i].timestamp = u64_to_string(timestamp_ms)

----------------------------------------------------------------------------
(* The callers of a HistogramRecorder: record, record_duration and the timer's  *)
(* close, on Histograms whose range ends inside the values of the model.        *)

\* `x as u64` of an f64 that is not negative (fixed point): the whole part
as_u64(x) == x \div MEASUREMENT_UNITS.seconds.factor

\* Recorder::record succeeds: the value is not above what the histogram tracks
\* (hdrhistogram tracks up to the end of the bucket that high falls in; the model
\* takes high itself; values below low are recorded)
recorder_record_ok(settings, value) == value <= settings.high

\* the value record_duration records: convert(duration.as_secs_f64(), seconds, unit) as u64
duration_value(duration, measurement_unit) ==
    as_u64(convert(duration, MEASUREMENT_UNITS.seconds, measurement_unit))

\* (a version of the next definition that never records)
recorded_nothing(storage, key, value) == storage

\* the Histogram after its recorder was given the value
recorded(storage, key, value) ==
    IF recorder_record_ok(histogram_at(storage, key).histogram_settings, value)
    THEN [storage EXCEPT ![key[1]].metrics[key[2]].hdr_histogram.recorders[value] = @ + 1]
    ELSE storage

\* the Result record and record_duration return: map_err turns the library's error
\* into Error::Msg
record_returns(storage, key, value) ==
    IF recorder_record_ok(histogram_at(storage, key).histogram_settings, value)
    THEN [kind |-> "Ok"]
    ELSE [kind |-> "Err", error |-> "Msg"]

\* HistogramRecorder::record(value) on a recorder of the Histogram key.  The first
\* guard is the bound of the model.
HistogramRecorder_record(key, value) ==
    /\ recorded_len(histograms_storage, HistogramKeys(histograms_storage)) < MaxRecorded
    /\ key \in HistogramKeys(histograms_storage)
    /\ histograms_storage' = recorded(histograms_storage, key, value)
    /\ record_result' = record_returns(histograms_storage, key, value)
    /\ UNCHANGED <<reg_result, registrations>>
    /\ UNCHANGED <<promVars, hiccupVars, concVars, descVars, expVars, serverVars, subVars>>

\* HistogramRecorder::record_duration(duration); the duration is in thousandths of
\* a second
HistogramRecorder_record_duration(key, duration) ==
    /\ recorded_len(histograms_storage, HistogramKeys(histograms_storage)) < MaxRecorded
    /\ key \in HistogramKeys(histograms_storage)
    /\ LET value == duration_value(duration,
                        histogram_at(histograms_storage, key).histogram_settings.measurement_unit)
       IN  /\ histograms_storage' = recorded(histograms_storage, key, value)
           /\ record_result' = record_returns(histograms_storage, key, value)
    /\ UNCHANGED <<reg_result, registrations>>
    /\ UNCHANGED <<promVars, hiccupVars, concVars, descVars, expVars, serverVars, subVars>>

\* HistogramTimer::close() after the duration: record_duration is called, what it
\* returns is discarded, the duration is returned
HistogramTimer_close(key, duration) ==
    /\ recorded_len(histograms_storage, HistogramKeys(histograms_storage)) < MaxRecorded
    /\ key \in HistogramKeys(histograms_storage)
    /\ LET value == duration_value(duration,
                        histogram_at(histograms_storage, key).histogram_settings.measurement_unit)
       IN  histograms_storage' = recorded(histograms_storage, key, value)
    /\ record_result' = [kind |-> "Duration", duration |-> duration]
    /\ UNCHANGED <<reg_result, registrations>>
    /\ UNCHANGED <<promVars, hiccupVars, concVars, descVars, expVars, serverVars, subVars>>

\* the values and the durations the callers record: inside every Histogram's range,
\* and above the range of the narrow ones
RecorderValues == 0..(MaxValue + 1)
RecorderDurations == { 0, 1, MaxValue + 1, 1000, 1000 * (MaxValue + 1) }

RecorderRegister == \E b \in RecorderBuilders : get_or_register_histogram(b)

RecordValue ==
    \E key \in HistogramKeys(histograms_storage), value \in RecorderValues :
        HistogramRecorder_record(key, value)

RecordDuration ==
    \E key \in HistogramKeys(histograms_storage), duration \in RecorderDurations :
        HistogramRecorder_record_duration(key, duration)

TimerClose ==
    \E key \in HistogramKeys(histograms_storage), duration \in RecorderDurations :
        HistogramTimer_close(key, duration)

RecorderInit ==
    /\ NoRecord /\ EmptyRegistry /\ IdleProm /\ IdleHiccup /\ NoCallers /\ NothingDescribed
    /\ IdleExporter /\ IdleServer /\ IdleSubscriber

RecorderNext == RecorderRegister \/ RecordValue \/ RecordDuration \/ TimerClose

SpecRecorder == RecorderInit /\ [][RecorderNext]_vars

\* the value is outside [low, high]
OutOfRange(settings, value) == value < settings.low \/ value > settings.high

\* C27: record and record_duration with a value outside [low, high] leave the
\* distribution as it is and return no error to the caller.
C27_OutOfRangeDroppedSilently ==
    [][ \A key \in HistogramKeys(histograms_storage) :
          LET settings == histogram_at(histograms_storage, key).histogram_settings
          IN  /\ \A value \in RecorderValues :
                    (OutOfRange(settings, value) /\ HistogramRecorder_record(key, value))
                    => /\ histograms_storage' = histograms_storage
                       /\ record_result'.kind # "Err"
              /\ \A duration \in RecorderDurations :
                    ( /\ OutOfRange(settings,
                                    duration_value(duration, settings.measurement_unit))
                      /\ HistogramRecorder_record_duration(key, duration) )
                    => /\ histograms_storage' = histograms_storage
                       /\ record_result'.kind # "Err"
      ]_vars

----------------------------------------------------------------------------
(* The HTTP server of the Prometheus exporter: start_server builds the recorder   *)
(* of its own Histogram once, serve_req answers every request it is given.        *)

\* the requests that reach the server: the method and the path, the path either
\* the one of the settings (PrometheusSettings::path) or another one
Methods == { "GET", "POST" }
Paths == { "config.path", "other" }

\* the body serve_req encodes from metrics_holder.histograms, the values in the
\* order the HashMap iterates in, the labels of each in the order of its tag names
RECURSIVE exposition(_, _)
exposition(holder, order) ==
    IF order = << >> THEN << >>
    ELSE encode_histogram(holder[Head(order)], holder[Head(order)].metric_description.tag_names)
             \o exposition(holder, Tail(order))

\* start_server: HistogramBuilder::new(..).with_settings(..).build().await.unwrap()
\* registers the Histogram and keeps its recorder for every request; an Err of the
\* registry makes unwrap panic
start_server ==
    /\ server_pc = "new"
    /\ LET r == register_histogram(histograms_storage, ServerBuilder)
       IN  /\ histograms_storage' = r.storage
           /\ reg_result' = r.result
           /\ IF r.result.kind = "Ok"
              THEN /\ http_req_histo' = <<r.result.recorder>>
                   /\ server_pc' = "serving"
              ELSE /\ http_req_histo' = << >>
                   /\ server_pc' = "panicked"
    /\ registrations' = registrations + 1
    /\ UNCHANGED requests
    /\ UNCHANGED <<promVars, hiccupVars, concVars, descVars, expVars, recVars, subVars>>

\* hyper hands a request to the service.  The guard on the length is the bound of
\* the model.
receive(method, path) ==
    /\ server_pc = "serving"
    /\ Len(requests) < MaxRequests
    /\ requests' = Append(requests, [method |-> method, path |-> path, pc |-> "received",
                                     status |-> 0, body |-> << >>])
    /\ UNCHANGED <<server_pc, http_req_histo>>
    /\ UNCHANGED <<promVars, hiccupVars, regVars, concVars, descVars, expVars, recVars, subVars>>

\* serve_req up to the timer: http_req_histo.write().await is granted when no other
\* request holds the recorder, and start_timer() starts the timer
serve_req_start_timer(i) ==
    /\ i \in DOMAIN requests
    /\ requests[i].pc = "received"
    /\ \A j \in DOMAIN requests : requests[j].pc # "timing"
    /\ requests' = [requests EXCEPT ![i].pc = "timing"]
    /\ UNCHANGED <<server_pc, http_req_histo>>
    /\ UNCHANGED <<promVars, hiccupVars, regVars, concVars, descVars, expVars, recVars, subVars>>

\* (versions of the next definition for a lock that lets readers in beside the
\* writer, and for one that lets no reader in)
histograms_read_granted_always(pc) == TRUE
histograms_read_granted_never(pc) == FALSE

\* metrics_holder.histograms.read().await is granted: not while consume_snapshot
\* (the listener at pc) holds the write guard of the RwLock, in its add_snapshot
histograms_read_granted(pc) == pc # "adding"

\* the rest of serve_req: under the read guard the Histograms of metrics_holder are
\* encoded, the response is built with status 200 and rusty_timer.close() records
\* the duration (in thousandths of a second) through the recorder of start_server;
\* the request (_req) is not looked at
serve_req_respond(i, order, duration) ==
    /\ i \in DOMAIN requests
    /\ requests[i].pc = "timing"
    /\ histograms_read_granted(listener_pc)
    /\ requests' = [requests EXCEPT ![i].pc = "answered", ![i].status = 200,
                                    ![i].body = exposition(metrics_holder, order)]
    /\ LET key   == <<http_req_histo[1].name, http_req_histo[1].id>>
           value == duration_value(duration, http_req_histo[1].measurement_unit)
       IN  histograms_storage' = recorded(histograms_storage, key, value)
    /\ UNCHANGED <<server_pc, http_req_histo, reg_result, registrations>>
    /\ UNCHANGED <<promVars, hiccupVars, concVars, descVars, expVars, recVars, subVars>>

\* the durations of the requests, in thousandths of a second
ServeDurations == 0..MaxValue

Receive == \E method \in Methods, path \in Paths : receive(method, path)

ServeReqStartTimer == \E i \in DOMAIN requests : serve_req_start_timer(i)

ServeReqRespond ==
    \E i \in DOMAIN requests, order \in IterationOrders(DOMAIN metrics_holder),
       duration \in ServeDurations :
        serve_req_respond(i, order, duration)

ServerInit ==
    /\ IdleServer /\ EmptyRegistry /\ IdleProm /\ IdleHiccup /\ NoCallers /\ NothingDescribed
    /\ IdleExporter /\ NoRecord /\ IdleSubscriber

ServerNext == start_server \/ Receive \/ ServeReqStartTimer \/ ServeReqRespond

SpecServer == ServerInit /\ [][ServerNext]_vars

\* the request i is answered in this step
Answers(i) ==
    /\ i \in DOMAIN requests /\ requests[i].pc = "timing"
    /\ requests'[i].pc = "answered"

\* the observations in the Histogram of the server
server_observations(storage) ==
    IF HTTP_REQUEST_DURATION \in DOMAIN storage
    THEN recorded_len(storage, { key \in HistogramKeys(storage) : key[1] = HTTP_REQUEST_DURATION })
    ELSE 0

\* C24: a request is answered 200 with the exposition body only when it is a GET on
\* the configured path; with any other path or any other method it is answered 404
C24_OnlyGetOnConfiguredPathAnswered200 ==
    [][ \A i \in DOMAIN requests : Answers(i) =>
            IF requests[i].method = "GET" /\ requests[i].path = "config.path"
            THEN requests'[i].status = 200
            ELSE requests'[i].status = 404 ]_vars

----------------------------------------------------------------------------
(* The broadcast channel of RustyAdvisor::run between the producer of snapshots   *)
(* (MetricsExporter::start) and the Prometheus subscriber (listen_metrics and     *)
(* consume_snapshot).  The channel has one Receiver, created with the channel.    *)

\* the capacity of broadcast::channel::<Arc<MetricsSnapshot>>(16)
CHANNEL_CAPACITY == 16

\* the MetricDescription of the Histogram the snapshots carry a sample of, and the
\* ones of a counter and of a gauge
SampledDescription == MetricDescription_from(<<"m">>, <<"a">>, << >>, << >>).value
CounterDescription == MetricDescription_from(<<"n">>, <<"a">>, << >>, << >>).value
GaugeDescription == MetricDescription_from(<<"n">>, <<"b">>, << >>, << >>).value

\* MetricSample::Histogram with one value recorded, MetricSample::Counter and
\* MetricSample::Gauge
HistogramMetricSample ==
    [kind |-> "Histogram", metric_description |-> SampledDescription,
     histogram_sample |-> HistogramSample([EmptyHdr EXCEPT ![0] = 1], MEASUREMENT_UNITS.millis)]
CounterMetricSample == [kind |-> "Counter", metric_description |-> CounterDescription]
GaugeMetricSample == [kind |-> "Gauge", metric_description |-> GaugeDescription]

\* MetricsSnapshot::new
MetricsSnapshot_new(samples, timestamp_in_millis) ==
    [samples |-> samples, timestamp_in_millis |-> timestamp_in_millis]

\* the buckets of the settings of the exporter (0.001 and 1.0)
ConfiguredLadder == <<1, 1000>>

\* PrometheusHistogram::new, as a value: the buckets of the settings at zero and the
\* time of the call
PrometheusHistogram_new(metric_description, ladder, now) ==
    [metric_description |-> metric_description, buckets |-> create_buckets(ladder),
     sum |-> 0, count |-> 0, timestamp_ms |-> now]

\* PrometheusHistogram::add_snapshot, as a value
PrometheusHistogram_add_snapshot(histogram, histogram_sample, timestamp_in_millis) ==
    LET r == add_snapshot_result(histogram.buckets, histogram_sample)
    IN  [histogram EXCEPT !.buckets = r.buckets,
                          !.sum = @ + r.sum_samples,
                          !.count = @ + r.count_samples,
                          !.timestamp_ms = timestamp_in_millis]

\* guard.entry(metric_desc.id).or_insert_with(|| PrometheusHistogram::new(..))
\* followed by add_snapshot
projected(holder, metric_description, histogram_sample, timestamp_in_millis) ==
    LET id    == metric_description.id
        entry == IF id \in DOMAIN holder THEN holder[id]
                 ELSE PrometheusHistogram_new(metric_description, ConfiguredLadder,
                                              timestamp_in_millis)
    IN  [i \in DOMAIN holder \cup {id} |->
            IF i = id
            THEN PrometheusHistogram_add_snapshot(entry, histogram_sample, timestamp_in_millis)
            ELSE holder[i]]

\* broadcast::channel(16): the channel is empty and has its one Receiver; the
\* producer and the subscriber are about to be polled by join3
ChannelCreated ==
    /\ channel = << >>
    /\ channel_tail = 0
    /\ receiver_next = 0
    /\ receivers = 1
    /\ producer_pc = "tick"
    /\ metric_snapshot = << >>
    /\ sending_result = [kind |-> "none"]
    /\ listener_pc = "new"
    /\ consumed = << >>
    /\ metrics_holder = << >>

\* the process is alive: a panic of the subscriber, which block_on polls on the main
\* thread, ends it
alive == listener_pc # "panicked"

\* the producer's loop in MetricsExporter::start: tick() returns a snapshot
producer_tick(snapshot) ==
    /\ alive
    /\ producer_pc = "tick"
    /\ metric_snapshot' = <<snapshot>>
    /\ producer_pc' = "send"
    /\ UNCHANGED <<channel, channel_tail, receiver_next, receivers, sending_result,
                   listener_pc, consumed, metrics_holder>>
    /\ UNCHANGED <<promVars, hiccupVars, regVars, concVars, descVars, expVars, recVars, serverVars>>

\* (a version of the next definition for a channel whose send waits for room)
send_ready_with_room(queue, tail, next, rx_cnt) ==
    rx_cnt = 0 \/ tail - next < CHANNEL_CAPACITY

\* sender.send(..) is a plain call, not awaited: it returns in every state of the
\* channel
send_ready(queue, tail, next, rx_cnt) == TRUE

\* the slots of the channel after a send: the value is appended and, beyond the
\* capacity, the oldest value is overwritten
sent(queue, value) ==
    LET appended == Append(queue, value)
    IN  IF Len(appended) > CHANNEL_CAPACITY THEN Tail(appended) ELSE appended

\* sender.send(Arc::new(metric_snapshot)): Err when there is no Receiver (the value
\* is not queued), else Ok with the number of Receivers; then the producer goes to
\* delay_for
producer_send ==
    /\ alive
    /\ producer_pc = "send"
    /\ send_ready(channel, channel_tail, receiver_next, receivers)
    /\ IF receivers = 0
       THEN /\ sending_result' = [kind |-> "Err"]
            /\ UNCHANGED <<channel, channel_tail>>
       ELSE /\ sending_result' = [kind |-> "Ok", num_of_receivers |-> receivers]
            /\ channel' = sent(channel, metric_snapshot[1])
            /\ channel_tail' = channel_tail + 1
    /\ metric_snapshot' = << >>
    /\ producer_pc' = "delay"
    /\ UNCHANGED <<receiver_next, receivers, listener_pc, consumed, metrics_holder>>
    /\ UNCHANGED <<promVars, hiccupVars, regVars, concVars, descVars, expVars, recVars, serverVars>>

\* delay_for(15 s) is over and the loop goes round (is_running is never set to false)
producer_delay ==
    /\ alive
    /\ producer_pc = "delay"
    /\ producer_pc' = "tick"
    /\ UNCHANGED <<channel, channel_tail, receiver_next, receivers, metric_snapshot,
                   sending_result, listener_pc, consumed, metrics_holder>>
    /\ UNCHANGED <<promVars, hiccupVars, regVars, concVars, descVars, expVars, recVars, serverVars>>

\* listen_metrics is polled for the first time: running is set and the loop entered
listen_metrics ==
    /\ listener_pc = "new"
    /\ listener_pc' = "recv"
    /\ UNCHANGED <<channel, channel_tail, receiver_next, receivers, producer_pc,
                   metric_snapshot, sending_result, consumed, metrics_holder>>
    /\ UNCHANGED <<promVars, hiccupVars, regVars, concVars, descVars, expVars, recVars, serverVars>>

\* the position of the oldest value the channel retains
oldest_retained == channel_tail - Len(channel)

\* the Receiver was overrun: the value it is to read next has been overwritten
lagged == receiver_next < oldest_retained

\* receiver.recv().await in the loop of listen_metrics.  Ok(snapshot) goes to
\* consume_snapshot.  Err(Lagged(n)) moves the Receiver to the oldest value retained;
\* the Err arm logs and breaks, listen_metrics returns and its Receiver is dropped.
\* With nothing to read recv waits.
recv ==
    /\ listener_pc = "recv"
    /\ receiver_next < channel_tail
    /\ IF lagged
       THEN /\ receiver_next' = oldest_retained
            /\ listener_pc' = "returned"
            /\ receivers' = receivers - 1
            /\ UNCHANGED consumed
       ELSE /\ receiver_next' = receiver_next + 1
            /\ listener_pc' = "consume"
            /\ consumed' = <<channel[receiver_next - oldest_retained + 1]>>
            /\ UNCHANGED receivers
    /\ UNCHANGED <<channel, channel_tail, producer_pc, metric_snapshot, sending_result,
                   metrics_holder>>
    /\ UNCHANGED <<promVars, hiccupVars, regVars, concVars, descVars, expVars, recVars, serverVars>>

\* one turn of the for loop of consume_snapshot: a Histogram sample is projected into
\* metrics_holder.histograms; a Counter or a Gauge sample hits unimplemented!(), the
\* panic unwinds out of listen_metrics and drops its Receiver
consume_sample ==
    /\ listener_pc = "consume"
    /\ consumed[1].samples # << >>
    /\ LET metric_sample == Head(consumed[1].samples)
       IN  IF metric_sample.kind = "Histogram"
           THEN /\ metrics_holder' = projected(metrics_holder, metric_sample.metric_description,
                                               metric_sample.histogram_sample,
                                               consumed[1].timestamp_in_millis)
                /\ consumed' = [consumed EXCEPT ![1].samples = Tail(@)]
                /\ UNCHANGED <<listener_pc, receivers>>
           ELSE /\ listener_pc' = "panicked"
                /\ receivers' = receivers - 1
                /\ UNCHANGED <<consumed, metrics_holder>>
    /\ UNCHANGED <<channel, channel_tail, receiver_next, producer_pc, metric_snapshot,
                   sending_result>>
    /\ UNCHANGED <<promVars, hiccupVars, regVars, concVars, descVars, expVars, recVars, serverVars>>

\* consume_snapshot returns; running is still set and the loop goes round
consume_snapshot_returns ==
    /\ listener_pc = "consume"
    /\ consumed[1].samples = << >>
    /\ listener_pc' = "recv"
    /\ consumed' = << >>
    /\ UNCHANGED <<channel, channel_tail, receiver_next, receivers, producer_pc,
                   metric_snapshot, sending_result, metrics_holder>>
    /\ UNCHANGED <<promVars, hiccupVars, regVars, concVars, descVars, expVars, recVars, serverVars>>

\* the tick of the producer returns a snapshot with the sample of the Histogram; its
\* timestamp is the clock, which in the model counts the snapshots queued.  The
\* first guard is the bound of the model: it bounds the snapshots queued (with no
\* Receiver none is).
ProducerTick ==
    /\ receivers = 0 \/ channel_tail < CHANNEL_CAPACITY + MaxOverrun
    /\ producer_tick(MetricsSnapshot_new(<<HistogramMetricSample>>, channel_tail))

SubscriberInit ==
    /\ ChannelCreated /\ EmptyRegistry /\ IdleProm /\ IdleHiccup /\ NoCallers
    /\ NothingDescribed /\ IdleExporter /\ NoRecord /\ IdleServer

SubscriberNext ==
    \/ ProducerTick \/ producer_send \/ producer_delay
    \/ listen_metrics \/ recv \/ consume_sample \/ consume_snapshot_returns

SpecSubscriber == SubscriberInit /\ [][SubscriberNext]_vars

\* the samples of the snapshots a projector may be given: up to two, of every kind
ProjectedSamples ==
    SeqsUpTo({ HistogramMetricSample, CounterMetricSample, GaugeMetricSample }, 2)

\* a snapshot of any samples is published.  The first guard is the bound of the model.
PublishAny ==
    /\ channel_tail < MaxProjected
    /\ \E samples \in ProjectedSamples :
           producer_tick(MetricsSnapshot_new(samples, channel_tail))

ProjectorNext ==
    \/ PublishAny \/ producer_send \/ producer_delay
    \/ listen_metrics \/ recv \/ consume_sample \/ consume_snapshot_returns

SpecProjector == SubscriberInit /\ [][ProjectorNext]_vars

SubscriberSteps ==
    listener_pc' # listener_pc \/ receiver_next' # receiver_next \/ consumed' # consumed

\* C22: when the subscriber has been overrun, its next receive reports the lag and
\* the subscriber keeps running: it stays in its loop with its Receiver, at the oldest
\* snapshot still available
C22_OverrunSubscriberKeepsRunning ==
    [][ (listener_pc = "recv" /\ receiver_next < channel_tail /\ lagged /\ SubscriberSteps) =>
            /\ listener_pc' \in { "recv", "consume" }
            /\ receivers' = receivers
            /\ receiver_next' >= oldest_retained ]_vars

\* C28: a Counter or a Gauge sample makes the projector return an error for that
\* sample and go on: the subscriber is not aborted, the sample is not projected and
\* the samples that follow it in the snapshot are the next to be taken
C28_ReservedSampleReturnsNotImplemented ==
    [][ ( /\ listener_pc = "consume"
          /\ consumed[1].samples # << >>
          /\ Head(consumed[1].samples).kind \in { "Counter", "Gauge" }
          /\ SubscriberSteps ) =>
            /\ listener_pc' = "consume"
            /\ receivers' = receivers
            /\ consumed'[1].samples = Tail(consumed[1].samples)
            /\ metrics_holder' = metrics_holder ]_vars

----------------------------------------------------------------------------
(* The end of the sampler: stop() against the running threads.                    *)

\* C31: stop() on a running sampler eventually returns, and once the flag is false
\* no thread begins an iteration: a thread ends the iteration it is in (sleep,
\* measurement, back-fill) at most
C31_StopEventuallyReturns ==
    /\ (caller = "join") ~> (caller = "idle")
    /\ [][ ~running =>
             \A t \in DOMAIN threads : threads'[t].n_iter = threads[t].n_iter ]_vars

\* stop() has returned after joining a thread that was in an iteration when the flag
\* was set
C31_Witness ==
    /\ caller = "idle"
    /\ ~running
    /\ \E t \in joined : threads[t].pc = "exited" /\ threads[t].n_iter > 0

----------------------------------------------------------------------------
(* The bucket cursor of add_snapshot.                                             *)

\* the while loop of add_snapshot for one value, from the cursor idx (1-based): the
\* loop runs while value > next_bucket; its body increments the cursor and reads
\* buckets[next_bucket_index], which is out of bounds when the cursor has passed the
\* last bucket
RECURSIVE cursor_overruns(_, _, _)
cursor_overruns(bk, idx, value) ==
    IF idx > Len(bk) THEN TRUE
    ELSE IF value > bk[idx].bound THEN cursor_overruns(bk, idx + 1, value)
    ELSE FALSE

\* C34: in add_snapshot the cursor never passes the last bucket, for any value of a
\* sample in any unit, from any position, with any configured bounds: the read of
\* buckets[next_bucket_index] after the increment is never out of bounds
C34_CursorStaysInBounds ==
    Len(buckets) > 0 =>
        \A v \in 0..MaxValue, unit \in Units, idx \in 1..Len(buckets) :
            ~cursor_overruns(buckets, idx,
                             convert(as_f64(v), unit, MEASUREMENT_UNITS.seconds))

\* a value above every configured bound was added: it is counted in the last bucket
\* only
C34_Witness ==
    /\ snapshots_seen > 0
    /\ Len(buckets) >= 2
    /\ buckets[Len(buckets)].count > buckets[Len(buckets) - 1].count

----------------------------------------------------------------------------
(* Registering again, with other settings, a Histogram that is in use.            *)

\* the Histogram the builder names is registered, with settings other than the
\* builder's
registered_differently(storage, histogram_builder) ==
    LET d == builder_metric_description(histogram_builder).value
    IN  /\ <<d.name, d.id>> \in HistogramKeys(storage)
        /\ histogram_at(storage, <<d.name, d.id>>).histogram_settings
               # histogram_builder.settings

\* a caller registers a Histogram that is not registered
RegisterNew ==
    \E b \in ReregisterBuilders :
        /\ HistogramKeys(histograms_storage) = {}
        /\ get_or_register_histogram(b)

\* a caller registers a registered Histogram with other settings
RegisterDifferently ==
    \E b \in ReregisterBuilders :
        /\ registered_differently(histograms_storage, b)
        /\ get_or_register_histogram(b)

ReregisterNext ==
    RegisterNew \/ RegisterDifferently \/ RecordValue \/ RecordDuration \/ TimerClose

SpecReregister == RecorderInit /\ [][ReregisterNext]_vars

\* C39: registering a (name, id) that has a Histogram, with a builder of other
\* settings, leaves the registry as it is (the settings and the contents of the
\* Histogram included) and returns a recorder of the existing Histogram, with the
\* existing Histogram's unit and not the builder's
C39_ReregistrationKeepsHistogram ==
    [][ \A b \in ReregisterBuilders :
            (registered_differently(histograms_storage, b) /\ get_or_register_histogram(b))
            => LET d == builder_metric_description(b).value
                   h == histogram_at(histograms_storage, <<d.name, d.id>>)
               IN  /\ histograms_storage' = histograms_storage
                   /\ reg_result'.kind = "Ok"
                   /\ reg_result'.recorder.measurement_unit
                          = h.histogram_settings.measurement_unit
                   /\ reg_result'.recorder.measurement_unit
                          # b.settings.measurement_unit ]_vars

\* a Histogram that holds recorded values was registered again with other settings:
\* it holds its values and the recorder has its unit
C39_Witness ==
    /\ registrations = 2
    /\ reg_result.kind = "Ok"
    /\ \E key \in HistogramKeys(histograms_storage) :
           LET h == histogram_at(histograms_storage, key)
           IN  /\ hdr_len(h.hdr_histogram.recorders) > 0
               /\ reg_result.recorder.measurement_unit = h.histogram_settings.measurement_unit

----------------------------------------------------------------------------
(* The identity of a metric from the registry to the projector.                   *)

\* sample_histograms for the Histogram of a key that holds one value
sampled_with_one_value(storage, key) ==
    [kind |-> "Histogram",
     metric_description |-> histogram_at(storage, key).metric_description,
     histogram_sample |->
         HistogramSample([EmptyHdr EXCEPT ![0] = 1],
                         histogram_at(storage, key).histogram_settings.measurement_unit)]

IdentityRegister == \E b \in IdentityBuilders : get_or_register_histogram(b)

\* a tick over the registered Histograms, in the order the maps iterate in.  The
\* first guard is the bound of the model.
IdentityTick ==
    /\ channel_tail < MaxProjected
    /\ HistogramKeys(histograms_storage) # {}
    /\ \E metrics \in IterationOrders(HistogramKeys(histograms_storage)) :
           producer_tick(MetricsSnapshot_new(
               [i \in 1..Len(metrics) |-> sampled_with_one_value(histograms_storage, metrics[i])],
               channel_tail))

IdentityNext ==
    \/ IdentityRegister \/ IdentityTick \/ producer_send \/ producer_delay
    \/ listen_metrics \/ recv \/ consume_sample \/ consume_snapshot_returns

SpecIdentity == SubscriberInit /\ [][IdentityNext]_vars

\* two descriptions are of one metric: the same name and the same value for every tag
same_metric(d1, d2) == d1.name = d2.name /\ d1.tags = d2.tags

\* C35: metrics that differ in their name or in the value of some tag have separate
\* Histograms and separate PrometheusHistograms: the recorder a registration returns
\* is of a Histogram of the builder's own name and tags, and a sample is only ever
\* added to a PrometheusHistogram of its own metric
C35_DifferentMetricsKeptApart ==
    [][ /\ \A b \in IdentityBuilders :
              (get_or_register_histogram(b) /\ reg_result'.kind = "Ok")
              => LET h == histogram_at(histograms_storage',
                                       <<reg_result'.recorder.name, reg_result'.recorder.id>>)
                 IN  h.metric_description.name = b.name /\ h.metric_description.tags = b.tags
        /\ ( /\ listener_pc = "consume"
             /\ consumed[1].samples # << >>
             /\ Head(consumed[1].samples).kind = "Histogram"
             /\ SubscriberSteps )
           => LET d == Head(consumed[1].samples).metric_description
              IN  d.id \in DOMAIN metrics_holder
                  => same_metric(metrics_holder[d.id].metric_description, d) ]_vars

(***************************************************************************)
(* The whole pipeline: the server's requests beside the producer's ticks   *)
(* over the registry and the subscriber's consume_snapshot, which holds    *)
(* the write guard of metrics_holder.histograms for one sample at a time.  *)
(***************************************************************************)

\* the builder of a metric of the application, registered beside the server's
PipelineBuilder ==
    [name |-> <<"m">>, description |-> <<"a">>, tags |-> << >>, order |-> << >>,
     settings |-> [low |-> 1, high |-> 600000, precision |-> 0,
                   measurement_unit |-> MEASUREMENT_UNITS.millis]]

\* the ticks of the pipeline
MaxTicks == 1

\* the loop of tick() over metrics: sample(true) on each Histogram, whose recorders
\* hand their values over in time; the samples and the registry it leaves
RECURSIVE tick_samples_of(_, _)
tick_samples_of(storage, metrics) ==
    IF metrics = << >> THEN [storage |-> storage, samples |-> << >>]
    ELSE LET key       == Head(metrics)
             histogram == histogram_at(storage, key)
             sampled   == sample(histogram, histogram.hdr_histogram.recorders, TRUE)
             rest      == tick_samples_of(
                              [storage EXCEPT ![key[1]].metrics[key[2]] = sampled.histogram],
                              Tail(metrics))
         IN  [storage |-> rest.storage,
              samples |-> <<[kind |-> "Histogram",
                             metric_description |-> histogram.metric_description,
                             histogram_sample |-> sampled.histogram_sample]>>
                          \o rest.samples]

\* MetricsExporter::tick() in the producer's loop: current_millis() (the clock of the
\* model counts the ticks), registry.histograms() in the order the maps iterate in,
\* the samples, MetricsSnapshot::new
tick(metrics) ==
    /\ alive
    /\ producer_pc = "tick"
    /\ Range(metrics) = HistogramKeys(histograms_storage)
    /\ Len(metrics) = Cardinality(HistogramKeys(histograms_storage))
    /\ LET r == tick_samples_of(histograms_storage, metrics)
       IN  /\ histograms_storage' = r.storage
           /\ metric_snapshot' = <<MetricsSnapshot_new(r.samples, tick_timestamp + 1)>>
    /\ tick_timestamp' = tick_timestamp + 1
    /\ producer_pc' = "send"
    /\ UNCHANGED <<tick_pc, tick_metrics, tick_samples, sent_snapshots>>
    /\ UNCHANGED <<reg_result, registrations>>
    /\ UNCHANGED <<channel, channel_tail, receiver_next, receivers, sending_result,
                   listener_pc, consumed, metrics_holder>>
    /\ UNCHANGED <<promVars, hiccupVars, concVars, descVars, recVars, serverVars>>

\* consume_snapshot's turn for a sample up to the middle of add_snapshot:
\* histograms.write().await, guard.entry(id).or_insert_with(..) and the loops of
\* add_snapshot over the buckets; sum, count and timestamp_ms are still to be
\* assigned and the write guard is held.  A Counter or a Gauge sample hits
\* unimplemented!() as in consume_sample.
consume_add_buckets ==
    /\ listener_pc = "consume"
    /\ consumed[1].samples # << >>
    /\ LET metric_sample == Head(consumed[1].samples)
           id    == metric_sample.metric_description.id
           entry == IF id \in DOMAIN metrics_holder THEN metrics_holder[id]
                    ELSE PrometheusHistogram_new(metric_sample.metric_description,
                                                 ConfiguredLadder,
                                                 consumed[1].timestamp_in_millis)
       IN  IF metric_sample.kind = "Histogram"
           THEN /\ metrics_holder' =
                       [i \in DOMAIN metrics_holder \cup {id} |->
                           IF i = id
                           THEN [entry EXCEPT !.buckets =
                                    add_snapshot_result(entry.buckets,
                                                        metric_sample.histogram_sample).buckets]
                           ELSE metrics_holder[i]]
                /\ listener_pc' = "adding"
                /\ UNCHANGED receivers
           ELSE /\ listener_pc' = "panicked"
                /\ receivers' = receivers - 1
                /\ UNCHANGED metrics_holder
    /\ UNCHANGED <<channel, channel_tail, receiver_next, producer_pc, metric_snapshot,
                   sending_result, consumed>>
    /\ UNCHANGED <<promVars, hiccupVars, regVars, concVars, descVars, expVars, recVars, serverVars>>

\* the end of add_snapshot (self.sum, self.count, self.timestamp_ms) and of the turn
\* of the for loop, where the write guard is dropped
consume_add_totals ==
    /\ listener_pc = "adding"
    /\ LET metric_sample == Head(consumed[1].samples)
           id == metric_sample.metric_description.id
           r  == add_snapshot_result(metrics_holder[id].buckets, metric_sample.histogram_sample)
       IN  metrics_holder' =
               [metrics_holder EXCEPT ![id].sum = @ + r.sum_samples,
                                      ![id].count = @ + r.count_samples,
                                      ![id].timestamp_ms = consumed[1].timestamp_in_millis]
    /\ consumed' = [consumed EXCEPT ![1].samples = Tail(@)]
    /\ listener_pc' = "consume"
    /\ UNCHANGED <<channel, channel_tail, receiver_next, receivers, producer_pc,
                   metric_snapshot, sending_result>>
    /\ UNCHANGED <<promVars, hiccupVars, regVars, concVars, descVars, expVars, recVars, serverVars>>

PipelineRegister ==
    server_pc = "serving" /\ get_or_register_histogram(PipelineBuilder)

\* a tick; the first guard is the bound of the model
PipelineTick ==
    /\ tick_timestamp < MaxTicks
    /\ \E metrics \in IterationOrders(HistogramKeys(histograms_storage)) : tick(metrics)

\* the requests of the pipeline are scrapes that take a millisecond
PipelineReceive == receive("GET", "/metrics")

PipelineRespond ==
    \E i \in DOMAIN requests, order \in IterationOrders(DOMAIN metrics_holder) :
        serve_req_respond(i, order, 1)

\* the server, the producer and the subscriber with the Histogram of the server
PipelineNext ==
    \/ start_server \/ PipelineReceive \/ ServeReqStartTimer \/ PipelineRespond
    \/ PipelineTick \/ producer_send \/ producer_delay
    \/ listen_metrics \/ recv \/ consume_add_buckets \/ consume_add_totals
    \/ consume_snapshot_returns

SpecPipeline == SubscriberInit /\ [][PipelineNext]_vars

\* the same with a metric of the application: the snapshots have two samples
SnapshotsNext ==
    \/ start_server \/ PipelineRegister \/ PipelineReceive \/ ServeReqStartTimer
    \/ PipelineRespond \/ PipelineTick \/ producer_send \/ producer_delay
    \/ listen_metrics \/ recv \/ consume_add_buckets \/ consume_add_totals
    \/ consume_snapshot_returns

SpecSnapshots == SubscriberInit /\ [][SnapshotsNext]_vars

\* the number a line of a response shows
shown(value) == CHOOSE n \in 0..MaxRequests : u64_to_string(n) = value

\* the line k of a response is the le="+Inf" line of its block
is_inf_bucket(body, k) ==
    /\ body[k].kind = "sample"
    /\ body[k].labels # << >>
    /\ body[k].labels[Len(body[k].labels)].label_value = <<"+", "I", "n", "f">>

\* C37: a response observes each PrometheusHistogram before or after a whole
\* add_snapshot: in every block of every response the le="+Inf" line shows the value
\* of the _count line (two lines below it, after _sum), and the bucket lines above
\* it show non-decreasing values
C37_ResponseSeesWholeAddSnapshot ==
    \A i \in DOMAIN requests :
        requests[i].pc = "answered" =>
            LET body == requests[i].body
            IN  \A k \in DOMAIN body :
                    is_inf_bucket(body, k) =>
                        /\ body[k + 2].value = body[k].value
                        /\ \A j \in 1..Len(ConfiguredLadder) :
                              shown(body[k - j].value) <= shown(body[k - j + 1].value)

\* a request that holds the recorder waits for the read guard while consume_snapshot
\* is in the middle of an add_snapshot, which has raised the buckets and not yet the
\* count, of the observation an answered request recorded
C37_Witness ==
    /\ listener_pc = "adding"
    /\ \E id \in DOMAIN metrics_holder :
           metrics_holder[id].buckets[Len(metrics_holder[id].buckets)].count
               # metrics_holder[id].count
    /\ \E i, j \in DOMAIN requests :
           requests[i].pc = "answered" /\ requests[j].pc = "timing"

\* C38: a response reflects a snapshot for all of its metrics or for none: no
\* request is answered with a line that carries the timestamp of the snapshot
\* consume_snapshot is going through while samples of that snapshot are still to be
\* added
C38_ResponseReflectsWholeSnapshot ==
    [][ \A i \in DOMAIN requests :
            (Answers(i) /\ consumed # << >>) =>
                ~ /\ consumed[1].samples # << >>
                  /\ \E k \in DOMAIN requests'[i].body :
                         /\ requests'[i].body[k].kind = "sample"
                         /\ requests'[i].body[k].timestamp
                                = u64_to_string(consumed[1].timestamp_in_millis) ]_vars

\* the request i goes on: it is granted the recorder and then answered
PipelineServes(i) ==
    \/ serve_req_start_timer(i)
    \/ \E order \in IterationOrders(DOMAIN metrics_holder) : serve_req_respond(i, order, 1)

\* The pipeline under fair scheduling: a request that can go on for good does (the
\* runtime polls its task, and tokio's RwLock queues its waiters), and the
\* subscriber that holds the write guard goes on to drop it, add_snapshot having no
\* await inside.
SpecPipelineFair ==
    /\ SubscriberInit
    /\ [][PipelineNext]_vars
    /\ \A i \in 1..MaxRequests : WF_vars(PipelineServes(i))
    /\ WF_vars(consume_add_totals)

\* C32: serving a request never deadlocks with the producer or the projector: under
\* fair scheduling every request received is eventually answered, whatever the ticks
\* and consume_snapshot do meanwhile
C32_EveryRequestAnswered ==
    \A i \in 1..MaxRequests :
        (Len(requests) >= i) ~> (Len(requests) >= i /\ requests[i].pc = "answered")

\* two requests are answered, and the later one shows the observation the earlier
\* one recorded, after a tick sampled it and consume_snapshot added it
C32_Witness ==
    \E i, j \in DOMAIN requests :
        /\ i # j
        /\ requests[i].pc = "answered" /\ requests[j].pc = "answered"
        /\ \E k \in DOMAIN requests[j].body :
               /\ is_inf_bucket(requests[j].body, k)
               /\ requests[j].body[k].name = HTTP_REQUEST_DURATION \o <<"_", "b", "u", "c", "k", "e", "t">>
               /\ shown(requests[j].body[k].value) > 0

(***************************************************************************)
(* The way of a recorded value: from the recorder through the tick and the *)
(* channel to the count of the PrometheusHistogram.                        *)
(***************************************************************************)

\* the snapshots in the channel the Receiver is still to be given
unread ==
    IF receivers = 0 THEN << >>
    ELSE IF lagged THEN channel
    ELSE SubSeq(channel, receiver_next - oldest_retained + 1, Len(channel))

\* the observations recorded and not yet added to a PrometheusHistogram: in the
\* Histograms, in the snapshot the producer is about to send, in the channel and in
\* the snapshot consume_snapshot is going through
observations_on_the_way ==
    recorded_len(histograms_storage, HistogramKeys(histograms_storage))
        + snapshots_len(metric_snapshot) + snapshots_len(unread) + snapshots_len(consumed)

\* the observations the PrometheusHistograms count
observations_counted ==
    SumOver([id \in DOMAIN metrics_holder |-> metrics_holder[id].count], DOMAIN metrics_holder)

\* the metric of the application is registered, once
DeliveryRegister ==
    HistogramKeys(histograms_storage) = {} /\ get_or_register_histogram(PipelineBuilder)

\* a value of one millisecond is recorded; the first guard is the bound of the
\* model: a value is recorded when no other is on its way or counted
DeliveryRecord ==
    /\ observations_on_the_way + observations_counted = 0
    /\ \E key \in HistogramKeys(histograms_storage) : recorder_record(key, 1)

\* a tick; the first guard is the bound of the model: the ticks that fill the
\* channel, overrun it and find the Receiver gone
DeliveryTick ==
    /\ tick_timestamp <= CHANNEL_CAPACITY + MaxOverrun
    /\ \E metrics \in IterationOrders(HistogramKeys(histograms_storage)) : tick(metrics)

DeliveryNext ==
    \/ DeliveryRegister \/ DeliveryRecord \/ DeliveryTick \/ producer_send \/ producer_delay
    \/ listen_metrics \/ recv \/ consume_sample \/ consume_snapshot_returns

SpecDelivery == SubscriberInit /\ [][DeliveryNext]_vars

\* C36: every value recorded reaches the count of its PrometheusHistogram, once: no
\* step takes a recorded value off its way to the count (the observations on the way
\* and the ones counted never become fewer, whether the snapshot is sent with no
\* Receiver or after the subscriber lagged), and none is counted twice (only a
\* record adds one)
C36_RecordedValuesReachTheCount ==
    [][ /\ observations_on_the_way' + observations_counted'
               >= observations_on_the_way + observations_counted
        /\ observations_on_the_way' + observations_counted'
               <= observations_on_the_way + observations_counted + 1 ]_vars

(***************************************************************************)
(* Registrations as tasks of a runtime with a bounded number of worker     *)
(* threads, beside the ticker.  A task occupies its worker thread from the *)
(* poll until it returns or is suspended at an await that is Pending; a    *)
(* task that waits for the lock of a shard (a blocking lock of the         *)
(* DashMap) keeps its worker thread.                                       *)
(***************************************************************************)

\* the worker threads of the runtime
MaxWorkers == 2

\* the ticker among the tasks (the callers are 1, 2, ..)
Ticker == None - 1

\* the worker thread w runs no task
worker_is_free(w) == workers[w] = None

\* a worker thread polls the task of a caller for the first time:
\* get_or_register_histogram is called
spawned_call(w, p, histogram_builder) ==
    /\ worker_is_free(w)
    /\ callers[p].pc = "idle"
    /\ builder_metric_description(histogram_builder).ok
    /\ callers' = [callers EXCEPT ![p] = [pc |-> "entry", builder |-> histogram_builder,
                                          result |-> [kind |-> "none"]]]
    /\ workers' = [workers EXCEPT ![w] = p]
    /\ UNCHANGED <<shard_of, shard_locks, histogram_writer, regVars>>
    /\ UNCHANGED <<promVars, hiccupVars, descVars, expVars, recVars, serverVars, subVars>>

\* the write guard was dropped and a worker thread polls the suspended task again:
\* read().await is Ready, new_recorder(&metric), and the call returns Ok
resumed(w, p) ==
    /\ worker_is_free(w)
    /\ callers[p].pc = "awaiting"
    /\ ~read_pending(<<description_of(p).name, description_of(p).id>>)
    /\ return_with(p, [kind |-> "Ok",
                       recorder |-> new_recorder(
                           histograms_storage[description_of(p).name]
                               .metrics[description_of(p).id])])
    /\ UNCHANGED <<shard_of, regVars>>
    /\ UNCHANGED <<promVars, hiccupVars, descVars, expVars, recVars, serverVars, subVars>>

\* delay_for is over and a worker thread polls the ticker, which enters tick().  The
\* first guard is the bound of the model.
ticker_polled(w) ==
    /\ tick_timestamp < MaxTicks
    /\ worker_is_free(w)
    /\ tick_pc = "idle"
    /\ workers' = [workers EXCEPT ![w] = Ticker]
    /\ tick_pc' = "histograms"
    /\ tick_timestamp' = tick_timestamp + 1
    /\ UNCHANGED <<tick_metrics, tick_samples, sent_snapshots>>
    /\ UNCHANGED <<callers, shard_of, shard_locks, histogram_writer, regVars>>
    /\ UNCHANGED <<promVars, hiccupVars, descVars, recVars, serverVars, subVars>>

\* registry.histograms(): iter() takes the read lock of every shard in turn, and
\* waits on its worker thread while a caller holds the write lock of one
ticker_histograms(metrics) ==
    /\ tick_pc = "histograms"
    /\ \A sh \in DOMAIN shard_locks : shard_locks[sh] = None
    /\ Range(metrics) = HistogramKeys(histograms_storage)
    /\ Len(metrics) = Cardinality(HistogramKeys(histograms_storage))
    /\ tick_metrics' = metrics
    /\ tick_samples' = << >>
    /\ tick_pc' = "sampling"
    /\ UNCHANGED <<tick_timestamp, sent_snapshots, concVars, regVars>>
    /\ UNCHANGED <<promVars, hiccupVars, descVars, recVars, serverVars, subVars>>

\* metric.write().await in the loop of tick(): the ticker has the write guard of
\* the Histogram next in turn
ticker_write ==
    /\ tick_pc = "sampling"
    /\ Len(tick_samples) < Len(tick_metrics)
    /\ histogram_writer = << >>
    /\ histogram_writer' = tick_metrics[Len(tick_samples) + 1]
    /\ UNCHANGED <<callers, shard_of, shard_locks, workers, expVars, regVars>>
    /\ UNCHANGED <<promVars, hiccupVars, descVars, recVars, serverVars, subVars>>

\* sample_histograms under the write guard, which is dropped at the end of the turn
ticker_sample ==
    /\ tick_pc = "sampling"
    /\ histogram_writer # << >>
    /\ LET histogram == histogram_at(histograms_storage, histogram_writer)
           sampled   == sample(histogram, histogram.hdr_histogram.recorders, TRUE)
       IN  /\ histograms_storage' =
                  [histograms_storage EXCEPT
                      ![histogram_writer[1]].metrics[histogram_writer[2]] = sampled.histogram]
           /\ tick_samples' =
                  Append(tick_samples,
                         [kind |-> "Histogram",
                          metric_description |-> histogram.metric_description,
                          histogram_sample |-> sampled.histogram_sample])
    /\ histogram_writer' = << >>
    /\ UNCHANGED <<tick_pc, tick_timestamp, tick_metrics, sent_snapshots>>
    /\ UNCHANGED <<callers, shard_of, shard_locks, workers, reg_result, registrations>>
    /\ UNCHANGED <<promVars, hiccupVars, descVars, recVars, serverVars, subVars>>

\* the end of tick(), sender.send(..) and delay_for(..).await, where the ticker
\* leaves its worker thread
ticker_delay ==
    /\ tick_pc = "sampling"
    /\ Len(tick_samples) = Len(tick_metrics)
    /\ sent_snapshots' = <<MetricsSnapshot_new(tick_samples, tick_timestamp)>>
    /\ tick_pc' = "idle"
    /\ tick_metrics' = << >>
    /\ tick_samples' = << >>
    /\ workers' = [w \in DOMAIN workers |-> IF workers[w] = Ticker THEN None ELSE workers[w]]
    /\ UNCHANGED <<tick_timestamp, callers, shard_of, shard_locks, histogram_writer, regVars>>
    /\ UNCHANGED <<promVars, hiccupVars, descVars, recVars, serverVars, subVars>>

SpawnedCall ==
    \E w \in DOMAIN workers, p \in DOMAIN callers : spawned_call(w, p, PipelineBuilder)

Resumed == \E w \in DOMAIN workers, p \in DOMAIN callers : resumed(w, p)

TickerPolled == \E w \in DOMAIN workers : ticker_polled(w)

TickerHistograms ==
    \E metrics \in IterationOrders(HistogramKeys(histograms_storage)) :
        ticker_histograms(metrics)

\* the Histogram m is registered; one task more than worker threads is about to
\* register it again, and the ticker is in delay_for
WorkersInit ==
    /\ histograms_storage = register_histogram(<< >>, PipelineBuilder).storage
    /\ reg_result = register_histogram(<< >>, PipelineBuilder).result
    /\ registrations = 1
    /\ callers = [p \in 1..(MaxWorkers + 1) |->
                     [pc |-> "idle", builder |-> None, result |-> [kind |-> "none"]]]
    /\ shard_of = [n \in { PipelineBuilder.name } |-> 1]
    /\ shard_locks = [sh \in Shards |-> None]
    /\ workers = [w \in 1..MaxWorkers |-> None]
    /\ histogram_writer = << >>
    /\ IdleProm /\ IdleHiccup /\ NothingDescribed /\ IdleExporter /\ IdlePipeline

\* (the entry of the metric is occupied from the start: no caller gets to
\* Entry::Vacant)
WorkersNext ==
    \/ SpawnedCall \/ EntryOrInsertWith \/ EntryMetric \/ Resumed
    \/ TickerPolled \/ TickerHistograms \/ ticker_write \/ ticker_sample \/ ticker_delay

SpecWorkers == WorkersInit /\ [][WorkersNext]_vars

\* the task the worker thread w runs waits for the lock of a shard that a suspended
\* task holds
blocked_on_entry(w) ==
    \/ /\ workers[w] \in DOMAIN callers
       /\ callers[workers[w]].pc = "entry"
       /\ shard_locks[shard_of[description_of(workers[w]).name]] \in DOMAIN callers
       /\ callers[shard_locks[shard_of[description_of(workers[w]).name]]].pc = "awaiting"
    \/ /\ workers[w] = Ticker
       /\ tick_pc = "histograms"
       /\ \E sh \in DOMAIN shard_locks :
              shard_locks[sh] \in DOMAIN callers /\ callers[shard_locks[sh]].pc = "awaiting"

\* C33: no deadlock in get_or_register_histogram: a task that holds the entry of the
\* registry's map while it awaits the read lock of a Histogram never leaves every
\* worker thread blocked on that entry
C33_NeverAllWorkersBlockedOnEntry ==
    ~ /\ \E p \in DOMAIN callers : callers[p].pc = "awaiting"
      /\ \A w \in DOMAIN workers : blocked_on_entry(w)

====
